---- MODULE Spec2Model ----
(***************************************************************************)
(* Observation reconciliation engine of db_monitor: the arrival matcher,   *)
(* the Observation builder (arrival-state machine), the deduplicator and   *)
(* the merge store (SQLite upsert).                                        *)
(*                                                                         *)
(* Instants are whole minutes counted from midnight of service day 0; the  *)
(* feed's timestamps have minute resolution (parser.parse_db_time).        *)
(***************************************************************************)
EXTENDS Integers, Sequences, FiniteSets, TLC

VARIABLES
    now,                \* the wall clock read by collect_observations
    feed,               \* what the fetches of the run under study return
    log,                \* the runs made so far: the instant and the feed of each
    rows,               \* the batch the last collection run built
    observations,       \* the observations table, in id (insertion) order
    departures,         \* matcher loop: the sorted departures of one window
    arrivals,           \* matcher loop: the sorted arrival candidates
    used_arrival_ids,   \* matcher loop: identifiers already handed out
    matched,            \* matcher loop: per processed departure, the index of
                        \* the arrival returned (0: None)
    con,                \* upsert_many's connection: its open transaction
    view,               \* the table as the dashboard's load_data last read it
    error               \* the exception that ended the last run ("": none)

vars == <<now, feed, log, rows, observations, departures, arrivals, used_arrival_ids, matched,
          con, view, error>>

----------------------------------------------------------------------------
(* Values *)

\* datetime | None: the absent instant.
NoTime == -1

\* datetime.max, the sort sentinel for an absent instant.
DatetimeMax == 9999 * 366 * 1440

MinutesPerDay == 24 * 60

\* timedelta(hours=1): the capture window after the planned arrival.
CaptureMinutes == 60

\* The matcher's "plausible continuation" window, 0 <= diff <= 300.
PreferredMaxMinutes == 300

\* preferred_minutes / fallback_abs start value, 10**9.
Unbounded == 1000000000

\* Alphabetical rank of the strings the final sort compares.
StrRank(s) ==
    CASE s = "" -> 0
      [] s = "Morning" -> 1
      [] s = "RE1" -> 2
      [] s = "S1" -> 3
      [] OTHER -> 4

\* str.strip() on a reason text or a stop of a routing path.
Strip(s) ==
    CASE s = " " -> ""
      [] s = " Offenburg " -> "Offenburg"
      [] OTHER -> s

\* datetime.isoformat(): the text SQLite stores, as its date and time parts.
IsoFormat(t) == <<t \div MinutesPerDay, (t % MinutesPerDay) \div 60, t % 60>>

\* "x.isoformat() if x else None": NULL is the empty text.
IsoOrNull(t) == IF t = NoTime THEN <<>> ELSE IsoFormat(t)

\* now.date().isoformat()
ServiceDate(t) == t \div MinutesPerDay

\* datetime.fromisoformat / pandas parse_dates on a stored timestamp: the
\* instant the text was formatted from, NaT (NoTime) for NULL.
FromIso(text) ==
    IF text = <<>> THEN NoTime
    ELSE text[1] * MinutesPerDay + text[2] * 60 + text[3]

\* int(bool)
BoolInt(b) == IF b THEN 1 ELSE 0

\* Faulty variant: the delay is the signed deviation, the clamp is missing.
MaxUnclamped(a, b) == b

Max(a, b) == IF a >= b THEN a ELSE b

Abs(a) == IF a < 0 THEN 0 - a ELSE a

----------------------------------------------------------------------------
(* Stable sort, as list.sort(key=...) *)

RECURSIVE LexLess(_, _)
LexLess(a, b) ==
    IF a = <<>> \/ b = <<>> THEN a = <<>> /\ b # <<>>
    ELSE IF a[1] # b[1] THEN a[1] < b[1]
    ELSE LexLess(Tail(a), Tail(b))

\* Insert index i behind every index whose key is not greater: stable.
InsertIndex(sorted, i, keys) ==
    LET k == Cardinality({p \in 1..Len(sorted) : ~LexLess(keys[i], keys[sorted[p]])})
    IN SubSeq(sorted, 1, k) \o <<i>> \o SubSeq(sorted, k + 1, Len(sorted))

RECURSIVE SortedIndices(_, _)
SortedIndices(keys, n) ==
    IF n = 0 THEN <<>> ELSE InsertIndex(SortedIndices(keys, n - 1), n, keys)

\* seq sorted by keys (a sequence of tuples, compared lexicographically).
StableSort(seq, keys) ==
    LET idx == SortedIndices(keys, Len(seq))
    IN [p \in 1..Len(seq) |-> seq[idx[p]]]

OrMax(t) == IF t = NoTime THEN DatetimeMax ELSE t

\* departures.sort(key=lambda x: x.planned_departure or datetime.max)
SortDepartures(seq) ==
    StableSort(seq, [p \in 1..Len(seq) |-> <<OrMax(seq[p].planned_departure)>>])

\* arrivals.sort(key=lambda x: x.planned_arrival or datetime.max)
SortArrivals(seq) ==
    StableSort(seq, [p \in 1..Len(seq) |-> <<OrMax(seq[p].planned_arrival)>>])

\* The elements of seq that satisfy keep, in order (a list comprehension).
RECURSIVE FilterIdx(_, _, _)
FilterIdx(n, keep, acc) ==
    IF n = 0 THEN acc
    ELSE FilterIdx(n - 1, keep, IF n \in keep THEN <<n>> \o acc ELSE acc)

----------------------------------------------------------------------------
(* collector._minutes_delta *)

\* int((actual - planned).total_seconds() / 60); both are whole minutes.
MinutesDelta(actual, planned) ==
    IF actual = NoTime \/ planned = NoTime THEN 0 ELSE actual - planned

----------------------------------------------------------------------------
(* collector._match_arrival_for_departure *)

MinOf(S) == CHOOSE x \in S : \A y \in S : x <= y

\* Step 1, lines 33-37: the first unused candidate with the departure's
\* train identifier (0: none).
DirectMatch(departure, arrs, used) ==
    LET hits == {i \in 1..Len(arrs) :
                    /\ arrs[i].train_id = departure.train_id
                    /\ arrs[i].train_id \notin used}
    IN IF departure.train_id # "" /\ hits # {} THEN MinOf(hits) ELSE 0

\* Lines 39 and 43: the unused candidates with the departure's display name,
\* as indices of arrs, sorted by planned arrival.
SameName(departure, arrs, used) ==
    LET keep == {i \in 1..Len(arrs) :
                    /\ arrs[i].train_name = departure.train_name
                    /\ arrs[i].train_id \notin used}
        idx == FilterIdx(Len(arrs), keep, <<>>)
    IN StableSort(idx, [p \in 1..Len(idx) |-> <<OrMax(arrs[idx[p]].planned_arrival)>>])

\* Faulty variant: the 300-minute cap is missing.
InPreferredWindowUncapped(diff) == 0 <= diff

\* Line 63: the candidate lies in the plausible continuation window.
InPreferredWindow(diff) == 0 <= diff /\ diff <= PreferredMaxMinutes

\* One pass of the loop body, lines 56-65.
ScanStep(acc, c, departure, arrs) ==
    IF arrs[c].planned_arrival = NoTime THEN acc
    ELSE LET diff == MinutesDelta(arrs[c].planned_arrival, departure.planned_departure)
             abs_diff == Abs(diff)
             a1 == IF abs_diff < acc.fallback_abs
                   THEN [acc EXCEPT !.fallback = c, !.fallback_abs = abs_diff]
                   ELSE acc
         IN IF InPreferredWindow(diff) /\ diff < a1.preferred_minutes
            THEN [a1 EXCEPT !.preferred = c, !.preferred_minutes = diff]
            ELSE a1

\* The loop of lines 55-65 over same_name[k..].
RECURSIVE Scan(_, _, _, _, _)
Scan(same_name, k, acc, departure, arrs) ==
    IF k > Len(same_name) THEN acc
    ELSE Scan(same_name, k + 1, ScanStep(acc, same_name[k], departure, arrs),
              departure, arrs)

\* Steps 2 and 3, lines 39-69: the index chosen among the same-name
\* candidates (0: none).
NameMatch(departure, arrs, used) ==
    LET same_name == SameName(departure, arrs, used)
    IN IF same_name = <<>> THEN 0
       ELSE IF departure.planned_departure = NoTime THEN same_name[1]
       ELSE LET acc == Scan(same_name, 1,
                            [preferred |-> 0, preferred_minutes |-> Unbounded,
                             fallback |-> same_name[1], fallback_abs |-> Unbounded],
                            departure, arrs)
            IN IF acc.preferred # 0 THEN acc.preferred ELSE acc.fallback

\* Faulty variant: the used set is ignored, a candidate is handed out again.
MatchIndexReuse(departure, arrs, used) ==
    LET direct == DirectMatch(departure, arrs, {})
    IN IF direct # 0 THEN direct ELSE NameMatch(departure, arrs, {})

\* The index of the returned candidate in arrs (0: None).
MatchIndex(departure, arrs, used) ==
    LET direct == DirectMatch(departure, arrs, used)
    IN IF direct # 0 THEN direct ELSE NameMatch(departure, arrs, used)

\* Faulty variant: the chosen identifier is not recorded.
MarkUsedNever(arrs, used, i) == used

\* used_ids after the call: every return path adds the chosen identifier.
MarkUsed(arrs, used, i) == IF i = 0 THEN used ELSE used \cup {arrs[i].train_id}

----------------------------------------------------------------------------
(* collector.collect_observations: the Observation builder *)

\* Line 140: planned arrival + 1 hour (absent without a planned arrival).
ArrivalDeadline(planned_arrival) ==
    IF planned_arrival # NoTime THEN planned_arrival + CaptureMinutes ELSE NoTime

\* Faulty variant: the deadline itself is outside the window.
WithinCaptureWindowStrict(planned_arrival, t) ==
    planned_arrival # NoTime /\ t < planned_arrival + CaptureMinutes

\* Line 141.
WithinCaptureWindow(planned_arrival, t) ==
    ArrivalDeadline(planned_arrival) # NoTime /\ t <= ArrivalDeadline(planned_arrival)

\* Faulty variant: a cancellation without a revised time is no arrival event.
ArrivalEventTimeOnly(arrs, mi, target_changes) ==
    /\ mi # 0
    /\ arrs[mi].train_id \in DOMAIN target_changes
    /\ target_changes[arrs[mi].train_id].changed_arrival # NoTime

\* Lines 124 and 142-148: target_changes.get(matched_arr.train_id) carries a
\* revised arrival time or the cancellation flag.
ArrivalEventAvailable(arrs, mi, target_changes) ==
    /\ mi # 0
    /\ arrs[mi].train_id \in DOMAIN target_changes
    /\ \/ target_changes[arrs[mi].train_id].changed_arrival # NoTime
       \/ target_changes[arrs[mi].train_id].canceled

\* Faulty variant: only explicit arrival events count, no on-time arrival is inferred.
ArrivalObservedExplicitOnly(arrs, mi, target_changes, planned_arrival, t) ==
    ArrivalEventAvailable(arrs, mi, target_changes)

\* Lines 153-161.
ArrivalObserved(arrs, mi, target_changes, planned_arrival, t) ==
    \/ ArrivalEventAvailable(arrs, mi, target_changes)
    \/ /\ WithinCaptureWindow(planned_arrival, t)
       /\ planned_arrival # NoTime
       /\ mi # 0
       /\ t >= planned_arrival

\* Line 176.
ArrivalInfoMissing(planned_arrival, arrival_observed, t) ==
    /\ planned_arrival # NoTime
    /\ ~arrival_observed
    /\ t > ArrivalDeadline(planned_arrival)

\* Faulty variant: a canceled leg always gets "Ausfall", also over a reason
\* text of the feed.
DefaultReasonAlways(canceled, reason) == IF canceled THEN "Ausfall" ELSE reason

\* Lines 133-134 and 168-169.
DefaultReason(canceled, reason) ==
    IF canceled /\ reason = "" THEN "Ausfall" ELSE reason

\* Lines 122-205: the Observation built for departure dep, matched to
\* arrs[mi] (mi = 0: no arrival matched), at instant t.
BuildObservation(dep, arrs, mi, source_changes, target_changes, t) ==
    LET has_dep_change == dep.train_id \in DOMAIN source_changes
        has_arr_change == mi # 0 /\ arrs[mi].train_id \in DOMAIN target_changes
        dep_change == source_changes[dep.train_id]
        arr_change == target_changes[arrs[mi].train_id]
        actual_departure == IF has_dep_change THEN dep_change.changed_departure ELSE NoTime
        dep_deviation == MinutesDelta(actual_departure, dep.planned_departure)
        canceled_departure == IF has_dep_change THEN dep_change.canceled ELSE FALSE
        departure_reason ==
            DefaultReason(canceled_departure,
                          Strip(IF has_dep_change THEN dep_change.departure_reason ELSE ""))
        planned_arrival == IF mi # 0 THEN arrs[mi].planned_arrival ELSE NoTime
        arrival_observed == ArrivalObserved(arrs, mi, target_changes, planned_arrival, t)
        actual_arrival ==
            IF ~arrival_observed THEN NoTime
            ELSE IF has_arr_change /\ arr_change.changed_arrival # NoTime
                 THEN arr_change.changed_arrival
                 ELSE planned_arrival
        arr_deviation ==
            IF arrival_observed THEN MinutesDelta(actual_arrival, planned_arrival) ELSE 0
        canceled_arrival ==
            IF arrival_observed /\ has_arr_change THEN arr_change.canceled ELSE FALSE
        arrival_reason ==
            IF arrival_observed
            THEN DefaultReason(canceled_arrival,
                               Strip(IF has_arr_change THEN arr_change.arrival_reason ELSE ""))
            ELSE ""
    IN [observation_ts |-> t,
        service_date |-> ServiceDate(t),
        train_id |-> dep.train_id,
        train_name |-> dep.train_name,
        line |-> dep.line,
        route_label |-> dep.route_label,
        source_station |-> dep.source_station,
        target_station |-> dep.target_station,
        planned_departure |-> dep.planned_departure,
        actual_departure |-> actual_departure,
        planned_arrival |-> planned_arrival,
        actual_arrival |-> actual_arrival,
        delay_minutes |-> Max(0, dep_deviation),
        schedule_deviation_minutes |-> dep_deviation,
        arrival_delay_minutes |-> Max(0, arr_deviation),
        arrival_schedule_deviation_minutes |-> arr_deviation,
        arrival_observed |-> arrival_observed,
        arrival_info_missing |-> ArrivalInfoMissing(planned_arrival, arrival_observed, t),
        departure_reason |-> departure_reason,
        arrival_reason |-> arrival_reason,
        canceled_departure |-> canceled_departure,
        canceled_arrival |-> canceled_arrival,
        canceled |-> canceled_departure \/ canceled_arrival]

\* The loop of lines 121-205 from departure k on: each departure is matched
\* (the used set is threaded through) and, unless its planned departure is
\* absent (line 136), an Observation is appended.
RECURSIVE BuildLoop(_, _, _, _, _, _, _, _)
BuildLoop(deps, k, arrs, used, source_changes, target_changes, t, acc) ==
    IF k > Len(deps) THEN acc
    ELSE LET mi == MatchIndex(deps[k], arrs, used)
             obs == BuildObservation(deps[k], arrs, mi, source_changes, target_changes, t)
         IN BuildLoop(deps, k + 1, arrs, MarkUsed(arrs, used, mi),
                      source_changes, target_changes, t,
                      IF deps[k].planned_departure = NoTime THEN acc
                      ELSE Append(acc, obs))

\* Lines 207-209: dict keyed by (route_label, train_id); a later row replaces
\* an earlier one and keeps the position of the key's first sighting.
DedupKey(row) == <<row.route_label, row.train_id>>

\* Faulty variant: the first row built for a key is kept, not the last.
DedupFirstWins(obs) ==
    LET first == {i \in 1..Len(obs) : \A j \in 1..(i - 1) : DedupKey(obs[j]) # DedupKey(obs[i])}
        idx == FilterIdx(Len(obs), first, <<>>)
    IN [p \in 1..Len(idx) |-> obs[idx[p]]]

Dedup(obs) ==
    LET first == {i \in 1..Len(obs) : \A j \in 1..(i - 1) : DedupKey(obs[j]) # DedupKey(obs[i])}
        idx == FilterIdx(Len(obs), first, <<>>)
        last(i) == CHOOSE j \in 1..Len(obs) :
                       /\ DedupKey(obs[j]) = DedupKey(obs[i])
                       /\ \A h \in (j + 1)..Len(obs) : DedupKey(obs[h]) # DedupKey(obs[i])
    IN [p \in 1..Len(idx) |-> obs[last(idx[p])]]

\* Line 211: sorted by (route_label, planned_departure, train_name).
SortObservations(obs) ==
    StableSort(obs, [p \in 1..Len(obs) |->
                        <<StrRank(obs[p].route_label), obs[p].planned_departure,
                          StrRank(obs[p].train_name)>>])

\* collect_observations for one route window whose fetches returned f.
CollectObservations(f, t) ==
    SortObservations(Dedup(
        BuildLoop(SortDepartures(f.departures), 1, SortArrivals(f.arrivals), {},
                  f.source_changes, f.target_changes, t, <<>>)))

----------------------------------------------------------------------------
(* storage.ObservationStore.upsert_many *)

\* Lines 149-176: the parameter tuple bound for one row.
ToStored(row) ==
    [observation_ts |-> IsoFormat(row.observation_ts),
     service_date |-> row.service_date,
     train_id |-> row.train_id,
     train_name |-> row.train_name,
     line |-> row.line,
     route_label |-> row.route_label,
     source_station |-> row.source_station,
     target_station |-> row.target_station,
     planned_departure |-> IsoFormat(row.planned_departure),
     actual_departure |-> IsoOrNull(row.actual_departure),
     planned_arrival |-> IsoOrNull(row.planned_arrival),
     actual_arrival |-> IsoOrNull(row.actual_arrival),
     delay_minutes |-> row.delay_minutes,
     schedule_deviation_minutes |-> row.schedule_deviation_minutes,
     arrival_delay_minutes |-> row.arrival_delay_minutes,
     arrival_schedule_deviation_minutes |-> row.arrival_schedule_deviation_minutes,
     arrival_observed |-> BoolInt(row.arrival_observed),
     arrival_info_missing |-> BoolInt(row.arrival_info_missing),
     departure_reason |-> row.departure_reason,
     arrival_reason |-> row.arrival_reason,
     canceled_departure |-> BoolInt(row.canceled_departure),
     canceled_arrival |-> BoolInt(row.canceled_arrival),
     canceled |-> BoolInt(row.canceled)]

\* NULL in a TEXT column that holds a str otherwise (the columns added by
\* _migrate_existing_table are NULL in the rows written before).
SqlNull == "<NULL>"

\* No connection is open: upsert_many is not inside its "with" block.
Closed == <<>>

\* UNIQUE(service_date, train_id, route_label), the ON CONFLICT target.
ConflictKey(r) == <<r.service_date, r.train_id, r.route_label>>

\* Faulty variant: the arrival-sensitive columns are overwritten like the others.
ArrivalSensitiveOverwrite(old, excluded, old_value, excluded_value) == excluded_value

\* Lines 113-126 and 143-146: CASE WHEN excluded.arrival_observed = 1 THEN
\* excluded.<field> ELSE observations.<field> END.
ArrivalSensitive(old, excluded, old_value, excluded_value) ==
    IF excluded.arrival_observed = 1 THEN excluded_value ELSE old_value

\* Faulty variant: arrival_observed=excluded.arrival_observed.
MergeArrivalObservedLastWins(old, excluded) == excluded.arrival_observed

\* Lines 127-130.
MergeArrivalObserved(old, excluded) ==
    IF old.arrival_observed = 1 \/ excluded.arrival_observed = 1 THEN 1 ELSE 0

\* Faulty variant: arrival_info_missing=excluded.arrival_info_missing.
MergeArrivalInfoMissingLastWins(old, excluded) == excluded.arrival_info_missing

\* Faulty variant: the first WHEN (an observed side forces 0) is missing.
MergeArrivalInfoMissingUnion(old, excluded) ==
    IF old.arrival_info_missing = 1 \/ excluded.arrival_info_missing = 1 THEN 1 ELSE 0

\* Lines 131-135.
MergeArrivalInfoMissing(old, excluded) ==
    IF old.arrival_observed = 1 \/ excluded.arrival_observed = 1 THEN 0
    ELSE IF old.arrival_info_missing = 1 \/ excluded.arrival_info_missing = 1 THEN 1
    ELSE 0

\* Faulty variant: arrival_reason=excluded.arrival_reason.
MergeArrivalReasonLastWins(old, excluded) == excluded.arrival_reason

\* Lines 137-141.
MergeArrivalReason(old, excluded) ==
    IF excluded.arrival_observed = 1 THEN excluded.arrival_reason
    ELSE IF old.arrival_reason # SqlNull /\ old.arrival_reason # ""
         THEN old.arrival_reason
    ELSE excluded.arrival_reason

\* Faulty variant: the row is replaced by the incoming row, but the larger
\* departure delay is kept.
MergeKeepLargerDelay(old, excluded) ==
    [excluded EXCEPT !.delay_minutes = IF old.delay_minutes > @ THEN old.delay_minutes ELSE @]

\* Faulty variant: the stored departure data is kept when the incoming row
\* has no actual departure.
MergeKeepConfirmedDeparture(old, excluded) ==
    IF excluded.actual_departure = <<>>
    THEN [excluded EXCEPT !.actual_departure = old.actual_departure,
                          !.delay_minutes = old.delay_minutes,
                          !.schedule_deviation_minutes = old.schedule_deviation_minutes]
    ELSE excluded

\* Faulty variant: the row is replaced by the incoming row, but the stored
\* planned arrival is kept.
MergeKeepPlannedArrival(old, excluded) ==
    [excluded EXCEPT !.planned_arrival = old.planned_arrival]

\* Faulty variant: the row is replaced by the incoming row, and the incoming
\* departure delay is added to the stored one.
MergeAccumulateDelay(old, excluded) ==
    [excluded EXCEPT !.delay_minutes = old.delay_minutes + @]

\* Lines 104-147: DO UPDATE SET ...
Merge(old, excluded) ==
    [observation_ts |-> excluded.observation_ts,
     service_date |-> old.service_date,
     train_id |-> old.train_id,
     train_name |-> excluded.train_name,
     line |-> excluded.line,
     route_label |-> old.route_label,
     source_station |-> excluded.source_station,
     target_station |-> excluded.target_station,
     planned_departure |-> excluded.planned_departure,
     actual_departure |-> excluded.actual_departure,
     planned_arrival |-> excluded.planned_arrival,
     actual_arrival |->
        ArrivalSensitive(old, excluded, old.actual_arrival, excluded.actual_arrival),
     delay_minutes |-> excluded.delay_minutes,
     schedule_deviation_minutes |-> excluded.schedule_deviation_minutes,
     arrival_delay_minutes |->
        ArrivalSensitive(old, excluded, old.arrival_delay_minutes,
                         excluded.arrival_delay_minutes),
     arrival_schedule_deviation_minutes |->
        ArrivalSensitive(old, excluded, old.arrival_schedule_deviation_minutes,
                         excluded.arrival_schedule_deviation_minutes),
     arrival_observed |-> MergeArrivalObserved(old, excluded),
     arrival_info_missing |-> MergeArrivalInfoMissing(old, excluded),
     departure_reason |-> excluded.departure_reason,
     arrival_reason |-> MergeArrivalReason(old, excluded),
     canceled_departure |-> excluded.canceled_departure,
     canceled_arrival |->
        ArrivalSensitive(old, excluded, old.canceled_arrival, excluded.canceled_arrival),
     canceled |-> excluded.canceled]

\* The rows of tbl that conflict with an INSERT of r.
Conflicts(tbl, r) == {i \in 1..Len(tbl) : ConflictKey(tbl[i]) = ConflictKey(r)}

\* Faulty variant: a plain INSERT, without the ON CONFLICT clause's update.
UpsertRowInsertOnly(tbl, r) == Append(tbl, r)

\* Lines 95-148 for one parameter tuple: INSERT, or on conflict the update of
\* the conflicting row.
UpsertRow(tbl, r) ==
    IF Conflicts(tbl, r) = {} THEN Append(tbl, r)
    ELSE [i \in 1..Len(tbl) |-> IF i \in Conflicts(tbl, r) THEN Merge(tbl[i], r) ELSE tbl[i]]

\* Lines 87-179: executemany over the batch, committed as one transaction.
RECURSIVE UpsertMany(_, _)
UpsertMany(tbl, batch) ==
    IF batch = <<>> THEN tbl
    ELSE UpsertMany(UpsertRow(tbl, ToStored(Head(batch))), Tail(batch))

----------------------------------------------------------------------------
(* The feeds a collection run can fetch *)

RouteLabel == "Morning"

\* parser._parse_plan_generic, lines 115-126: a stop of the source station.
DepartureStop(id, name, planned) ==
    [train_id |-> id, train_name |-> name, line |-> name,
     source_station |-> "Freiburg", target_station |-> "Offenburg",
     planned_departure |-> planned, planned_arrival |-> NoTime,
     route_label |-> RouteLabel]

\* parser._parse_plan_generic, lines 115-126: a stop of the target station.
ArrivalStop(id, name, planned) ==
    [train_id |-> id, train_name |-> name, line |-> name,
     source_station |-> "Freiburg", target_station |-> "Offenburg",
     planned_departure |-> NoTime, planned_arrival |-> planned,
     route_label |-> RouteLabel]

\* parser.parse_changes, lines 200-207.
ChangeInfo(id, cd, ca, dr, ar, c) ==
    [train_id |-> id, changed_departure |-> cd, changed_arrival |-> ca,
     departure_reason |-> dr, arrival_reason |-> ar, canceled |-> c]

\* Midnight of the service day the plan is fetched for (collector line 76).
DayStart(t) == ServiceDate(t) * MinutesPerDay

\* The day's timetable: RE1 (t1) 06:45 -> 07:20 and RE1 (t2) 07:00 -> 07:35.
PlannedDepartureOf(id) == IF id = "t1" THEN 6 * 60 + 45 ELSE 7 * 60
PlannedArrivalOf(id) == IF id = "t1" THEN 7 * 60 + 20 ELSE 7 * 60 + 35

D1(t) == DepartureStop("t1", "RE1", DayStart(t) + PlannedDepartureOf("t1"))
D2(t) == DepartureStop("t2", "RE1", DayStart(t) + PlannedDepartureOf("t2"))
A1(t) == ArrivalStop("t1", "RE1", DayStart(t) + PlannedArrivalOf("t1"))
A2(t) == ArrivalStop("t2", "RE1", DayStart(t) + PlannedArrivalOf("t2"))

\* An arrival of another train, S1 (t3), planned 07:40.
A3(t) == ArrivalStop("t3", "S1", DayStart(t) + 7 * 60 + 40)

\* Change events of the source station for train id: a late departure with
\* a reason, an early departure, a cancellation without a reason text.
SourceLate(id, t) ==
    ChangeInfo(id, DayStart(t) + PlannedDepartureOf(id) + 5, NoTime, "Stoerung", "", FALSE)
SourceEarly(id, t) ==
    ChangeInfo(id, DayStart(t) + PlannedDepartureOf(id) - 3, NoTime, "", "", FALSE)
SourceCanceled(id, t) == ChangeInfo(id, NoTime, NoTime, "", "", TRUE)

\* A cancellation at the source station with a reason text.
SourceCanceledReason(id, t) == ChangeInfo(id, NoTime, NoTime, "Stoerung", "", TRUE)

\* Change events of the target station for train id: an arrival revised by
\* +8 minutes, an early arrival with a reason, a cancellation without a
\* reason text, and a message that carries neither time nor cancellation.
TargetLate(id, t) ==
    ChangeInfo(id, NoTime, DayStart(t) + PlannedArrivalOf(id) + 8, "", "", FALSE)
TargetEarly(id, t) ==
    ChangeInfo(id, NoTime, DayStart(t) + PlannedArrivalOf(id) - 2, "", "Stoerung", FALSE)
TargetCanceled(id, t) == ChangeInfo(id, NoTime, NoTime, "", "", TRUE)
TargetMessage(id, t) == ChangeInfo(id, NoTime, NoTime, "", "Stoerung", FALSE)

\* A cancellation at the target station with a reason text.
TargetCanceledReason(id, t) == ChangeInfo(id, NoTime, NoTime, "", "Stoerung", TRUE)

\* A change lookup (parse_changes' dict) with no entry, or one entry.
Lookups(options) == {<<>>} \cup {(c.train_id :> c) : c \in options}

MakeFeed(ds, as, sc, tc) ==
    [departures |-> ds, arrivals |-> as, source_changes |-> sc, target_changes |-> tc]

\* The feeds of the collection runs: no departure at all, or the first
\* train, or both; the arrival plan complete or incomplete.
Feeds(t) ==
    {MakeFeed(<<>>, <<A1(t), A2(t)>>, <<>>, <<>>)} \cup
    {MakeFeed(ds, as, sc, tc) :
        ds \in {<<D1(t)>>, <<D1(t), D2(t)>>},
        as \in {<<>>, <<A2(t)>>, <<A1(t), A2(t)>>},
        sc \in Lookups({SourceLate("t1", t)}),
        tc \in Lookups({TargetLate("t1", t), TargetCanceled("t1", t),
                        TargetMessage("t1", t), TargetLate("t2", t)})}

\* The instants at which the runs read the clock: before RE1's planned
\* arrival 07:20, inside its capture window, and after both deadlines.
Instants == {7 * 60 + 10, 7 * 60 + 25, 9 * 60}

----------------------------------------------------------------------------
(* The collection runs: run_collection.main *)

Init ==
    /\ now = MinOf(Instants)
    /\ feed = <<>>
    /\ log = <<>>
    /\ rows = <<>>
    /\ observations = <<>>
    /\ departures = <<>>
    /\ arrivals = <<>>
    /\ used_arrival_ids = {}
    /\ matched = <<>>
    /\ con = Closed
    /\ view = <<>>
    /\ error = ""

\* Time passes between two runs.
Tick ==
    /\ \E t \in Instants : t > now /\ now' = t
    /\ UNCHANGED <<feed, log, rows, observations, departures, arrivals,
                   used_arrival_ids, matched, con, view, error>>

\* main, lines 51-52: rows = collect_observations(...); store.upsert_many(rows).
Run(f) ==
    /\ rows' = CollectObservations(f, now)
    /\ observations' = UpsertMany(observations, rows')

RunCollection ==
    /\ \E f \in Feeds(now) : Run(f)
    /\ UNCHANGED <<now, feed, log, departures, arrivals, used_arrival_ids, matched,
                   con, view, error>>

Next == Tick \/ RunCollection

Spec == Init /\ [][Next]_vars

----------------------------------------------------------------------------
(* The builder on its own: one call of collect_observations *)

\* The instants around the planned arrivals 07:20 and 07:35 and around
\* their deadlines.
BuildInstants ==
    {PlannedArrivalOf(id) + o : id \in {"t1", "t2"}, o \in {-10, -1, 0, 5, 59, 60, 61, 100}}

\* The departure plan lists the first train once, or both trains, or (a train
\* that appears in two hourly payloads) the first train twice.
BuildFeeds(t) ==
    {MakeFeed(ds, as, sc, tc) :
        ds \in {<<D1(t)>>, <<D1(t), D2(t)>>, <<D1(t), D1(t)>>, <<D1(t), D2(t), D1(t)>>},
        as \in {<<>>, <<A1(t)>>, <<A2(t)>>, <<A1(t), A2(t)>>, <<A3(t)>>},
        sc \in Lookups({SourceLate("t1", t), SourceEarly("t1", t), SourceCanceled("t1", t),
                        SourceCanceledReason("t1", t)}),
        tc \in Lookups({TargetLate("t1", t), TargetEarly("t1", t),
                        TargetCanceled("t1", t), TargetMessage("t1", t),
                        TargetCanceledReason("t1", t),
                        TargetLate("t2", t), TargetEarly("t2", t),
                        TargetCanceled("t2", t), TargetMessage("t2", t)})}

LogEntry(t, f) == [now |-> t, feed |-> f]

BuildInit ==
    /\ now \in BuildInstants
    /\ feed \in BuildFeeds(now)
    /\ log = <<>>
    /\ rows = <<>>
    /\ observations = <<>>
    /\ departures = <<>>
    /\ arrivals = <<>>
    /\ used_arrival_ids = {}
    /\ matched = <<>>
    /\ con = Closed
    /\ view = <<>>
    /\ error = ""

\* collect_observations(settings, windows) with the fetches returning feed.
Build ==
    /\ log = <<>>
    /\ rows' = CollectObservations(feed, now)
    /\ log' = <<LogEntry(now, feed)>>
    /\ UNCHANGED <<now, feed, observations, departures, arrivals, used_arrival_ids, matched,
                   con, view, error>>

BuildNext == Build

BuildSpec == BuildInit /\ [][BuildNext]_vars

----------------------------------------------------------------------------
(* One train followed over several runs, the inputs of each run recorded *)

MaxRuns == 3

ScenarioFeeds(t) ==
    {MakeFeed(<<D1(t)>>, <<A1(t)>>, <<>>, tc) :
        tc \in Lookups({TargetLate("t1", t), TargetMessage("t1", t)})}

ScenarioRun ==
    /\ Len(log) < MaxRuns
    /\ \E f \in ScenarioFeeds(now) :
          /\ Run(f)
          /\ log' = Append(log, LogEntry(now, f))
    /\ UNCHANGED <<now, feed, departures, arrivals, used_arrival_ids, matched,
                   con, view, error>>

ScenarioNext == Tick \/ ScenarioRun

ScenarioSpec == Init /\ [][ScenarioNext]_vars

----------------------------------------------------------------------------
(* One key merged over several runs, the feed of the last run kept *)

\* A row of train t1 written before the columns of REQUIRED_COLUMNS were
\* added: the TEXT columns among them are NULL, the others at their default.
LegacyRow ==
    [observation_ts |-> IsoFormat(6 * 60),
     service_date |-> 0,
     train_id |-> "t1",
     train_name |-> SqlNull,
     line |-> "RE1",
     route_label |-> RouteLabel,
     source_station |-> "Freiburg",
     target_station |-> "Offenburg",
     planned_departure |-> IsoFormat(PlannedDepartureOf("t1")),
     actual_departure |-> <<>>,
     planned_arrival |-> IsoFormat(PlannedArrivalOf("t1")),
     actual_arrival |-> <<>>,
     delay_minutes |-> 0,
     schedule_deviation_minutes |-> 0,
     arrival_delay_minutes |-> 0,
     arrival_schedule_deviation_minutes |-> 0,
     arrival_observed |-> 0,
     arrival_info_missing |-> 0,
     departure_reason |-> SqlNull,
     arrival_reason |-> SqlNull,
     canceled_departure |-> 0,
     canceled_arrival |-> 0,
     canceled |-> 0]

\* The first train with or without its arrival candidate, and every change
\* event of either station.
MergeFeeds(t) ==
    {MakeFeed(<<D1(t)>>, as, sc, tc) :
        as \in {<<>>, <<A1(t)>>},
        sc \in Lookups({SourceLate("t1", t), SourceEarly("t1", t), SourceCanceled("t1", t)}),
        tc \in Lookups({TargetLate("t1", t), TargetEarly("t1", t),
                        TargetCanceled("t1", t), TargetMessage("t1", t)})}

MergeInit ==
    /\ now = MinOf(Instants)
    /\ feed = <<>>
    /\ log = <<>>
    /\ rows = <<>>
    /\ observations \in {<<>>, <<LegacyRow>>}
    /\ departures = <<>>
    /\ arrivals = <<>>
    /\ used_arrival_ids = {}
    /\ matched = <<>>
    /\ con = Closed
    /\ view = <<>>
    /\ error = ""

MergeRun ==
    /\ \E f \in MergeFeeds(now) :
          /\ Run(f)
          /\ feed' = f
    /\ UNCHANGED <<now, log, departures, arrivals, used_arrival_ids, matched,
                   con, view, error>>

MergeNext == Tick \/ MergeRun

MergeSpec == MergeInit /\ [][MergeNext]_vars

----------------------------------------------------------------------------
(* upsert_many statement by statement, with the dashboard reading *)

\* Faulty variant: the connection is in autocommit mode, every statement is
\* written to the file at once.
AfterStatementAutocommit(file, working) == working

\* storage.py lines 91-93: sqlite3.connect with the default isolation level
\* opens a transaction before the first INSERT; until the commit the file
\* other connections read is as it was.
AfterStatement(file, working) == file

\* Both trains with their arrivals, with or without a revised arrival of the
\* first; or no departure at all.
TxFeeds(t) ==
    {MakeFeed(<<>>, <<A1(t), A2(t)>>, <<>>, <<>>)} \cup
    {MakeFeed(<<D1(t), D2(t)>>, <<A1(t), A2(t)>>, <<>>, tc) :
        tc \in Lookups({TargetLate("t1", t)})}

\* main, lines 51-52, up to the "with" of upsert_many: the batch is built
\* and bound (lines 149-176); an empty batch returns at once (lines 88-89).
\* journal is the table as it was when the transaction began.
BeginUpsert ==
    /\ con = Closed
    /\ \E f \in TxFeeds(now) : rows' = CollectObservations(f, now)
    /\ con' = IF rows' = <<>> THEN Closed
              ELSE [journal |-> observations,
                    table |-> observations,
                    todo |-> [j \in 1..Len(rows') |-> ToStored(rows'[j])]]
    /\ error' = ""
    /\ UNCHANGED <<now, feed, log, observations, departures, arrivals, used_arrival_ids,
                   matched, view>>

\* executemany, lines 93-177: the statement of the next parameter tuple.
ExecuteRow ==
    /\ con # Closed
    /\ con.todo # <<>>
    /\ con' = [con EXCEPT !.table = UpsertRow(con.table, Head(con.todo)),
                          !.todo = Tail(con.todo)]
    /\ observations' = AfterStatement(observations, con'.table)
    /\ UNCHANGED <<now, feed, log, rows, departures, arrivals, used_arrival_ids, matched,
                   view, error>>

\* A statement raises (the database is locked, the disk is full): the
\* exception leaves the "with" block of line 91, which rolls back.
ExecuteFails ==
    /\ con # Closed
    /\ con.todo # <<>>
    /\ con' = Closed
    /\ error' = "sqlite3.Error"
    /\ UNCHANGED <<now, feed, log, rows, observations, departures, arrivals,
                   used_arrival_ids, matched, view>>

\* con.commit(), line 178.
Commit ==
    /\ con # Closed
    /\ con.todo = <<>>
    /\ observations' = con.table
    /\ con' = Closed
    /\ UNCHANGED <<now, feed, log, rows, departures, arrivals, used_arrival_ids, matched,
                   view, error>>

\* dashboard.load_data, lines 37-76: a SELECT over its own connection.
LoadData ==
    /\ view' = observations
    /\ UNCHANGED <<now, feed, log, rows, observations, departures, arrivals,
                   used_arrival_ids, matched, con, error>>

TxNext == Tick \/ BeginUpsert \/ ExecuteRow \/ ExecuteFails \/ Commit \/ LoadData

TxSpec == Init /\ [][TxNext]_vars

----------------------------------------------------------------------------
(* The fetches of a run: client.get_plan, client.get_changes, the parsers *)

\* A payload is the XML text of a response: well formed or not, and the
\* records its s elements stand for (for a plan, the stops the loop of
\* parser lines 91-126 appends; for changes, the ChangeInfo of each).
Payload(records) == [well_formed |-> TRUE, records |-> records]

\* A text ElementTree cannot parse.
Malformed == [well_formed |-> FALSE, records |-> <<>>]

\* "<timetable/>", the empty-timetable sentinel.
EmptyTimetable == Payload(<<>>)

\* What session.get did: raised a RequestException, or returned a response.
RequestFailed == [failed |-> TRUE, status_code |-> 0, text |-> Malformed]
Response(status_code, text) == [failed |-> FALSE, status_code |-> status_code, text |-> text]

Returned(text) == [raised |-> "", text |-> text]
Raised(exception) == [raised |-> exception, text |-> Malformed]

\* client.get_plan, lines 67-91.
GetPlan(response) ==
    IF response.failed THEN Returned(EmptyTimetable)
    ELSE IF response.status_code = 404 THEN Returned(EmptyTimetable)
    ELSE IF 400 <= response.status_code /\ response.status_code < 600
         THEN IF 500 <= response.status_code /\ response.status_code < 600
              THEN Returned(EmptyTimetable)
              ELSE Raised("HTTPError")
    ELSE Returned(response.text)

\* client.get_changes, lines 93-112: no special case for 404.
GetChanges(response) ==
    IF response.failed THEN Returned(EmptyTimetable)
    ELSE IF 400 <= response.status_code /\ response.status_code < 600
         THEN IF 500 <= response.status_code /\ response.status_code < 600
              THEN Returned(EmptyTimetable)
              ELSE Raised("HTTPError")
    ELSE Returned(response.text)

\* Faulty variant: a timetable without records is taken for an error.
ParseRaisesOnEmpty(payload) == ~payload.well_formed \/ payload.records = <<>>

\* ET.fromstring, parser lines 88 and 172: raises ParseError on a text that
\* is not well formed.
ParseRaises(payload) == ~payload.well_formed

\* parser._parse_plan_generic: the stops of a well-formed payload.
ParsePlan(payload) == payload.records

\* parser.parse_changes, lines 173-209: result[train_id] = ChangeInfo(...),
\* a later record of an identifier replaces an earlier one.
ParseChanges(payload) ==
    LET recs == payload.records
        last(id) == CHOOSE i \in 1..Len(recs) :
                        /\ recs[i].train_id = id
                        /\ \A h \in (i + 1)..Len(recs) : recs[h].train_id # id
    IN [id \in {recs[i].train_id : i \in 1..Len(recs)} |-> recs[last(id)]]

\* The exception one fetch-and-parse ends with ("": none): the client's, or
\* the parser's on the text returned.
StageError(got) ==
    IF got.raised # "" THEN got.raised
    ELSE IF ParseRaises(got.text) THEN "ParseError"
    ELSE ""

\* The first exception of the stages, in the order they run ("": none).
RECURSIVE FirstError(_)
FirstError(stages) ==
    IF stages = <<>> THEN ""
    ELSE IF StageError(Head(stages)) # "" THEN StageError(Head(stages))
    ELSE FirstError(Tail(stages))

\* departures.extend(...) / arrivals.extend(...) over the hours.
RECURSIVE ExtendAll(_)
ExtendAll(gots) ==
    IF gots = <<>> THEN <<>> ELSE ParsePlan(Head(gots).text) \o ExtendAll(Tail(gots))

\* collect_observations, lines 85-115 and on, for one route window whose
\* requests are answered by fetch: the changes of both stations, then the
\* departure plan hour by hour, then the arrival plan hour by hour. No stage
\* is inside a try: the first exception ends the call.
CollectRun(fetch, t) ==
    LET sc == GetChanges(fetch.source_changes)
        tc == GetChanges(fetch.target_changes)
        ds == [h \in 1..Len(fetch.departure_hours) |-> GetPlan(fetch.departure_hours[h])]
        as == [h \in 1..Len(fetch.arrival_hours) |-> GetPlan(fetch.arrival_hours[h])]
        err == FirstError(<<sc, tc>> \o ds \o as)
    IN IF err # "" THEN [error |-> err, rows |-> <<>>]
       ELSE [error |-> "",
             rows |-> CollectObservations(
                          MakeFeed(ExtendAll(ds), ExtendAll(as),
                                   ParseChanges(sc.text), ParseChanges(tc.text)), t)]

\* The answers to the requests of one run: the departure plan of the hours
\* 06 (first train) and 07 (second train), the arrival plan of hour 07, the
\* changes of both stations.
Fetches(t) ==
    {[source_changes |-> sc, target_changes |-> tc,
      departure_hours |-> <<d6, d7>>, arrival_hours |-> <<a7>>] :
        sc \in {Response(200, Payload(<<SourceLate("t1", t)>>)), RequestFailed},
        tc \in {Response(200, Payload(<<TargetLate("t1", t)>>))},
        d6 \in {Response(200, Payload(<<D1(t)>>)), Response(404, EmptyTimetable),
                Response(200, Malformed)},
        d7 \in {Response(200, Payload(<<D2(t)>>)), RequestFailed},
        a7 \in {Response(200, Payload(<<A1(t), A2(t)>>)), Response(503, Malformed)}}

\* main, lines 51-52: an exception of collect_observations ends the process
\* before upsert_many is called.
FetchRun ==
    /\ \E fetch \in Fetches(now) :
          LET r == CollectRun(fetch, now)
          IN /\ feed' = fetch
             /\ error' = r.error
             /\ rows' = r.rows
             /\ observations' = IF r.error = "" THEN UpsertMany(observations, r.rows)
                                ELSE observations
    /\ UNCHANGED <<now, log, departures, arrivals, used_arrival_ids, matched, con, view>>

FetchNext == Tick \/ FetchRun

FetchSpec == Init /\ [][FetchNext]_vars

----------------------------------------------------------------------------
(* The dashboard read path: dashboard.load_data with its reclassification *)

\* Series.fillna("")
FillNa(text) == IF text = SqlNull THEN "" ELSE text

\* Lines 53-90: one row of the frame, its timestamps parsed, its flags as
\* bool, its texts without NULL.
FrameRow(r) ==
    [service_date |-> r.service_date,
     train_id |-> r.train_id,
     train_name |-> FillNa(r.train_name),
     line |-> FillNa(r.line),
     route_label |-> r.route_label,
     observation_ts |-> FromIso(r.observation_ts),
     planned_departure |-> FromIso(r.planned_departure),
     planned_arrival |-> FromIso(r.planned_arrival),
     actual_arrival |-> FromIso(r.actual_arrival),
     delay_minutes |-> r.delay_minutes,
     arrival_delay_minutes |-> r.arrival_delay_minutes,
     arrival_observed |-> r.arrival_observed = 1,
     arrival_info_missing |-> r.arrival_info_missing = 1,
     departure_reason |-> FillNa(r.departure_reason),
     arrival_reason |-> FillNa(r.arrival_reason),
     canceled |-> r.canceled = 1]

\* Line 73: ORDER BY service_date DESC, route_label, planned_departure.
OrderBy(tbl) ==
    StableSort(tbl, [p \in 1..Len(tbl) |->
                        <<0 - tbl[p].service_date, StrRank(tbl[p].route_label)>>
                            \o tbl[p].planned_departure])

\* Line 98: the deadline is NaT without a planned arrival, and NaT < now is False.
InferredMissing(row, now_local) ==
    /\ ~row.arrival_observed
    /\ row.planned_arrival # NoTime
    /\ row.planned_arrival + CaptureMinutes < now_local

\* Faulty variant: rows of earlier service dates are not reclassified.
InferredMissingPastNever(row, now_local) == FALSE

\* Line 99.
InferredMissingPast(row, now_local) ==
    /\ ~row.arrival_observed
    /\ row.service_date < ServiceDate(now_local)

\* Line 100.
EffectiveArrivalMissing(row, now_local) ==
    \/ row.arrival_info_missing
    \/ InferredMissing(row, now_local)
    \/ InferredMissingPast(row, now_local)

\* Line 101.
EffectiveArrivalOpen(row, now_local) ==
    ~row.arrival_observed /\ ~EffectiveArrivalMissing(row, now_local)

\* Lines 95-101 for one row of the frame; now_local is the clock read of line 95.
Reclassified(row, now_local) ==
    [c \in DOMAIN row \cup {"effective_arrival_missing", "effective_arrival_open", "now_local"} |->
        CASE c = "effective_arrival_missing" -> EffectiveArrivalMissing(row, now_local)
          [] c = "effective_arrival_open" -> EffectiveArrivalOpen(row, now_local)
          [] c = "now_local" -> now_local
          [] OTHER -> row[c]]

\* load_data, lines 37-103: the frame read at now_local.
LoadFrame(tbl, now_local) ==
    LET ordered == OrderBy(tbl)
    IN [p \in 1..Len(ordered) |-> Reclassified(FrameRow(ordered[p]), now_local)]

\* Before the planned arrival of t1, inside its capture window, after its
\* deadline, and shortly after the next midnight.
DashInstants == {7 * 60 + 10, 7 * 60 + 25, 8 * 60 + 30, MinutesPerDay + 10}

\* The first train with or without its arrival candidate, silent or with a
\* revised arrival.
DashFeeds(t) ==
    {MakeFeed(<<D1(t)>>, as, <<>>, tc) :
        as \in {<<>>, <<A1(t)>>},
        tc \in Lookups({TargetLate("t1", t)})}

DashTick ==
    /\ \E t \in DashInstants : t > now /\ now' = t
    /\ UNCHANGED <<feed, log, rows, observations, departures, arrivals,
                   used_arrival_ids, matched, con, view, error>>

DashRun ==
    /\ \E f \in DashFeeds(now) : Run(f)
    /\ UNCHANGED <<now, feed, log, departures, arrivals, used_arrival_ids, matched,
                   con, view, error>>

LoadDashboard ==
    /\ view' = LoadFrame(observations, now)
    /\ UNCHANGED <<now, feed, log, rows, observations, departures, arrivals,
                   used_arrival_ids, matched, con, error>>

DashNext == DashTick \/ DashRun \/ LoadDashboard

DashSpec == Init /\ [][DashNext]_vars

\* The clock does not stop.
DashLiveSpec == DashSpec /\ WF_vars(DashTick)

----------------------------------------------------------------------------
(* The plan parser record by record: parser._parse_plan_generic *)

\* str.lower() on a station name.
Lower(s) ==
    CASE s = "Freiburg" -> "freiburg"
      [] s = "FREIBURG" -> "freiburg"
      [] s = "Offenburg" -> "offenburg"
      [] s = "OFFENBURG" -> "offenburg"
      [] s = "Basel" -> "basel"
      [] s = "Lahr" -> "lahr"
      [] s = "Karlsruhe" -> "karlsruhe"
      [] OTHER -> s

\* One s element of a plan payload: its id attribute ("" when absent), the
\* name its tl element gives, and the pt and ppth attributes of its dp and ar
\* sub-elements: NoTime for a missing element or pt, <<>> for a missing
\* element or an absent or empty ppth, else the texts between the pipes.
StopElement(id, name, dp_pt, dp_ppth, ar_pt, ar_ppth) ==
    [id |-> id, name |-> name, dp_pt |-> dp_pt, dp_ppth |-> dp_ppth,
     ar_pt |-> ar_pt, ar_ppth |-> ar_ppth]

\* _extract_path: the departure sub-element's path when it has one, else the
\* arrival sub-element's, else none.
ExtractPath(stop) == IF stop.dp_ppth # <<>> THEN stop.dp_ppth ELSE stop.ar_ppth

\* datetime.time()
TimeOfDay(t) == t % MinutesPerDay

\* Faulty variant: the end of the window is excluded.
InWindowEndExcluded(event_time, window_start, window_end) ==
    TimeOfDay(event_time) >= window_start /\ TimeOfDay(event_time) < window_end

\* Line 106, negated: the record is not skipped for its time of day.
InWindow(event_time, window_start, window_end) ==
    ~(TimeOfDay(event_time) < window_start \/ TimeOfDay(event_time) > window_end)

NotBlank(x) == Strip(x) # ""

\* Line 111: [x.strip().lower() for x in path_raw.split("|") if x.strip()].
PathStations(path_raw) ==
    LET kept == SelectSeq(path_raw, NotBlank)
    IN [i \in 1..Len(kept) |-> Lower(Strip(kept[i]))]

\* Lines 92-113: no "continue" is taken for the record.
Survives(stop, window_start, window_end, mode, required_in_path) ==
    LET event_time == IF mode = "departure" THEN stop.dp_pt ELSE stop.ar_pt
        path_raw == ExtractPath(stop)
    IN /\ stop.id # ""
       /\ event_time # NoTime
       /\ InWindow(event_time, window_start, window_end)
       /\ path_raw # <<>> =>
              \E i \in 1..Len(PathStations(path_raw)) :
                  PathStations(path_raw)[i] = Lower(required_in_path)

\* Lines 115-126.
PlannedStop(stop, source_station, target_station, route_label) ==
    [train_id |-> stop.id, train_name |-> stop.name, line |-> stop.name,
     source_station |-> source_station, target_station |-> target_station,
     planned_departure |-> stop.dp_pt, planned_arrival |-> stop.ar_pt,
     route_label |-> route_label]

\* Lines 78-128: the loop over the s elements, in payload order.
RECURSIVE ParsePlanGeneric(_, _, _, _, _, _, _, _)
ParsePlanGeneric(xml_payload, source_station, target_station, route_label, window_start, window_end, mode, required_in_path) ==
    IF xml_payload = <<>> THEN <<>>
    ELSE LET stop == Head(xml_payload)
             rest == ParsePlanGeneric(Tail(xml_payload), source_station, target_station,
                                      route_label, window_start, window_end, mode,
                                      required_in_path)
         IN IF Survives(stop, window_start, window_end, mode, required_in_path)
            THEN <<PlannedStop(stop, source_station, target_station, route_label)>> \o rest
            ELSE rest

\* Lines 131-148.
ParseDeparturesPlan(xml_payload, source_station, target_station, route_label, window_start, window_end) ==
    ParsePlanGeneric(xml_payload, source_station, target_station, route_label,
                     window_start, window_end, "departure", target_station)

\* Lines 151-168.
ParseArrivalsPlan(xml_payload, source_station, target_station, route_label, window_start, window_end) ==
    ParsePlanGeneric(xml_payload, source_station, target_station, route_label,
                     window_start, window_end, "arrival", source_station)

\* The Morning window 06:00-08:00 and the arrival look-ahead of 3 hours
\* (collector lines 101-102).
WindowStart == 6 * 60
WindowEnd == 8 * 60
ArrivalEnd == WindowEnd + 3 * 60

\* The s elements a payload can hold.
StopElements ==
    {StopElement("t1", "RE1", 6 * 60 + 45, <<"Lahr", "Offenburg">>, NoTime, <<>>),
     StopElement("t2", "RE1", WindowEnd, <<"lahr", " Offenburg ">>, NoTime, <<>>),
     StopElement("t3", "RE1", WindowEnd + 1, <<"Lahr", "Offenburg">>, NoTime, <<>>),
     StopElement("t4", "RE1", WindowStart - 1, <<"Offenburg">>, WindowStart - 3, <<"Basel">>),
     StopElement("", "RE1", 6 * 60 + 45, <<"Lahr", "Offenburg">>, NoTime, <<>>),
     StopElement("t5", "S1", 7 * 60, <<"Basel">>, NoTime, <<>>),
     StopElement("t6", "S1", 7 * 60, <<>>, NoTime, <<>>),
     StopElement("t7", "RE1", NoTime, <<>>, 7 * 60 + 20, <<"Freiburg", "Lahr">>),
     StopElement("t8", "RE1", 7 * 60 + 37, <<"Karlsruhe">>, 7 * 60 + 35, <<"Basel", "FREIBURG", "Lahr">>),
     StopElement("t9", "S1", NoTime, <<>>, ArrivalEnd, <<>>),
     StopElement("t10", "S1", NoTime, <<>>, MinutesPerDay + 7 * 60, <<"Freiburg">>),
     StopElement("t11", "S1", 7 * 60 + 10, <<" ">>, 7 * 60 + 8, <<"Freiburg", "OFFENBURG">>),
     StopElement("t12", "RE1", 6 * 60 + 50, <<"OFFENBURG", "Karlsruhe">>, 6 * 60 + 48, <<"Basel">>)}

MaxRecords == 2

\* One well-formed plan payload of the source or of the target station.
ParseInit ==
    /\ feed \in {[eva |-> e, records |-> r] :
                     e \in {"source", "target"},
                     r \in UNION {[1..k -> StopElements] : k \in 0..MaxRecords}}
    /\ now = MinOf(Instants)
    /\ log = <<>>
    /\ rows = <<>>
    /\ observations = <<>>
    /\ departures = <<>>
    /\ arrivals = <<>>
    /\ used_arrival_ids = {}
    /\ matched = <<>>
    /\ con = Closed
    /\ view = <<>>
    /\ error = ""

\* collector lines 90-99 for one hour's payload.
ParseDepartures ==
    /\ log = <<>>
    /\ feed.eva = "source"
    /\ departures' = ParseDeparturesPlan(feed.records, "Freiburg", "Offenburg", RouteLabel,
                                         WindowStart, WindowEnd)
    /\ log' = <<"departure">>
    /\ UNCHANGED <<now, feed, rows, observations, arrivals, used_arrival_ids, matched,
                   con, view, error>>

\* collector lines 106-115 for one hour's payload.
ParseArrivals ==
    /\ log = <<>>
    /\ feed.eva = "target"
    /\ arrivals' = ParseArrivalsPlan(feed.records, "Freiburg", "Offenburg", RouteLabel,
                                     WindowStart, ArrivalEnd)
    /\ log' = <<"arrival">>
    /\ UNCHANGED <<now, feed, rows, observations, departures, used_arrival_ids, matched,
                   con, view, error>>

ParseNext == ParseDepartures \/ ParseArrivals

ParseSpec == ParseInit /\ [][ParseNext]_vars

----------------------------------------------------------------------------
(* The matcher loop of one route window, collector lines 117-123 *)

MaxDepartures == 2
MaxArrivals == 2

\* 06:45, the planned departure the candidates' offsets are counted from.
BaseDeparture == 6 * 60 + 45

DepartureCandidates ==
    {DepartureStop(id, "RE1", BaseDeparture + o) : id \in {"t1", "t2"}, o \in {0, 15}}

ArrivalCandidates ==
    {ArrivalStop(id, name, BaseDeparture + o) :
        id \in {"t2", "t3"}, name \in {"RE1", "S1"}, o \in {-5, 15, 300, 350, 400}}

\* The lists of at most n different stops of S, in any payload order.
Payloads(S, n) ==
    UNION {{s \in [1..k -> S] : \A i, j \in 1..k : i # j => s[i] # s[j]} : k \in 0..n}

MatchInit ==
    /\ departures \in {SortDepartures(s) : s \in Payloads(DepartureCandidates, MaxDepartures)}
    /\ arrivals \in {SortArrivals(s) : s \in Payloads(ArrivalCandidates, MaxArrivals)}
    /\ used_arrival_ids = {}
    /\ matched = <<>>
    /\ now = MinOf(Instants)
    /\ feed = <<>>
    /\ log = <<>>
    /\ rows = <<>>
    /\ observations = <<>>
    /\ con = Closed
    /\ view = <<>>
    /\ error = ""

\* One pass of the loop "for dep in departures", line 123.
MatchDeparture ==
    /\ Len(matched) < Len(departures)
    /\ LET dep == departures[Len(matched) + 1]
           mi == MatchIndex(dep, arrivals, used_arrival_ids)
       IN /\ matched' = Append(matched, mi)
          /\ used_arrival_ids' = MarkUsed(arrivals, used_arrival_ids, mi)
    /\ UNCHANGED <<now, feed, log, rows, observations, departures, arrivals,
                   con, view, error>>

MatchNext == MatchDeparture

MatchSpec == MatchInit /\ [][MatchNext]_vars

----------------------------------------------------------------------------
(* Properties of the merge store *)

\* The stored row of tbl under key k (rows are looked up by position).
RowsWithKey(tbl, k) == {i \in 1..Len(tbl) : ConflictKey(tbl[i]) = k}

KeysOf(tbl) == {ConflictKey(tbl[i]) : i \in 1..Len(tbl)}

\* The row of the last batch was merged into stored row i.
MergedInto(j, i) == ConflictKey(ToStored(rows[j])) = ConflictKey(observations[i])

\* C1: once the stored row of a key has arrival_observed = 1, every later
\* step (in particular a merge of a row with arrival_observed = false)
\* leaves a row of that key with arrival_observed = 1.
C1_ArrivalObservedMonotonic ==
    [][\A i \in 1..Len(observations) :
          observations[i].arrival_observed = 1 =>
              \E j \in 1..Len(observations') :
                  /\ ConflictKey(observations'[j]) = ConflictKey(observations[i])
                  /\ observations'[j].arrival_observed = 1]_vars

\* A stored row is still observed although the row last merged into it was not.
C1_Witness ==
    \E i \in 1..Len(observations), j \in 1..Len(rows) :
        /\ MergedInto(j, i)
        /\ ~rows[j].arrival_observed
        /\ observations[i].arrival_observed = 1

\* C2: a merge of an incoming row with arrival_observed = false into an
\* existing row leaves actual_arrival, arrival_delay_minutes,
\* arrival_schedule_deviation_minutes and canceled_arrival as stored; a merge
\* of an incoming row with arrival_observed = true sets them to the incoming
\* values.
C2_ArrivalFieldsFrame ==
    [][\A j \in 1..Len(rows') :
          \A i \in Conflicts(observations, ToStored(rows'[j])) :
              LET old == observations[i]
                  new == observations'[i]
                  inc == ToStored(rows'[j])
              IN /\ inc.arrival_observed = 0 =>
                        /\ new.actual_arrival = old.actual_arrival
                        /\ new.arrival_delay_minutes = old.arrival_delay_minutes
                        /\ new.arrival_schedule_deviation_minutes
                               = old.arrival_schedule_deviation_minutes
                        /\ new.canceled_arrival = old.canceled_arrival
                 /\ inc.arrival_observed = 1 =>
                        /\ new.actual_arrival = inc.actual_arrival
                        /\ new.arrival_delay_minutes = inc.arrival_delay_minutes
                        /\ new.arrival_schedule_deviation_minutes
                               = inc.arrival_schedule_deviation_minutes
                        /\ new.canceled_arrival = inc.canceled_arrival]_vars

\* A stored row keeps a late arrival (+8) and an arrival cancellation's
\* absence after a merge of a row that was not observed.
C2_Witness ==
    \E i \in 1..Len(observations), j \in 1..Len(rows) :
        /\ MergedInto(j, i)
        /\ ~rows[j].arrival_observed
        /\ observations[i].actual_arrival # <<>>
        /\ observations[i].arrival_delay_minutes = 8

\* C3: no built Observation and no stored row has arrival_info_missing and
\* arrival_observed both true.
C3_MissingExcludesObserved ==
    /\ \A j \in 1..Len(rows) : ~(rows[j].arrival_info_missing /\ rows[j].arrival_observed)
    /\ \A i \in 1..Len(observations) :
          ~(observations[i].arrival_info_missing = 1 /\ observations[i].arrival_observed = 1)

\* A row built after the deadline (missing) was merged into an observed row.
C3_Witness ==
    \E i \in 1..Len(observations), j \in 1..Len(rows) :
        /\ MergedInto(j, i)
        /\ rows[j].arrival_info_missing
        /\ observations[i].arrival_observed = 1
        /\ observations[i].arrival_info_missing = 0

\* C4: after every step the table holds exactly one row for every key it
\* held before and for every key of the batch upserted, and no other row.
C4_OneRowPerKey ==
    [][LET upserted == KeysOf(observations)
                           \cup {ConflictKey(ToStored(rows'[j])) : j \in 1..Len(rows')}
       IN /\ \A k \in upserted : Cardinality(RowsWithKey(observations', k)) = 1
          /\ KeysOf(observations') = upserted]_vars

\* A batch of two rows was merged into a table that holds both keys already.
C4_Witness ==
    /\ Len(observations) = 2
    /\ Len(rows) = 2
    /\ \E i \in 1..2, j \in 1..2 :
          /\ MergedInto(j, i)
          /\ ~rows[j].arrival_observed
          /\ observations[i].arrival_observed = 1
          /\ observations[i].observation_ts = IsoFormat(9 * 60)

----------------------------------------------------------------------------
(* Properties of the merge of one key *)

\* max(0, d), written out.
Clamped(d) == IF d > 0 THEN d ELSE 0

\* C12: in every built Observation and in every stored row, delay_minutes =
\* max(0, schedule_deviation_minutes) and arrival_delay_minutes =
\* max(0, arrival_schedule_deviation_minutes); an actual departure 3 minutes
\* before the planned one gives delay_minutes = 0 with deviation -3.
C12_DelayIsClampedDeviation ==
    /\ \A j \in 1..Len(rows) :
          /\ rows[j].delay_minutes = Clamped(rows[j].schedule_deviation_minutes)
          /\ rows[j].arrival_delay_minutes
                 = Clamped(rows[j].arrival_schedule_deviation_minutes)
          /\ rows[j].actual_departure = rows[j].planned_departure - 3 =>
                 /\ rows[j].delay_minutes = 0
                 /\ rows[j].schedule_deviation_minutes = -3
    /\ \A i \in 1..Len(observations) :
          /\ observations[i].delay_minutes
                 = Clamped(observations[i].schedule_deviation_minutes)
          /\ observations[i].arrival_delay_minutes
                 = Clamped(observations[i].arrival_schedule_deviation_minutes)
          /\ observations[i].delay_minutes >= 0
          /\ observations[i].arrival_delay_minutes >= 0

\* The stored row holds an early arrival (-2) from an earlier run and an
\* early departure (-3) from the last one, which was not observed.
C12_Witness ==
    /\ Len(rows) = 1
    /\ Len(observations) = 1
    /\ ~rows[1].arrival_observed
    /\ rows[1].actual_departure = rows[1].planned_departure - 3
    /\ observations[1].schedule_deviation_minutes = -3
    /\ observations[1].delay_minutes = 0
    /\ observations[1].arrival_schedule_deviation_minutes = -2
    /\ observations[1].arrival_delay_minutes = 0

\* The run of this step found no source-station change event for the train.
C15_SourceSilent == "t1" \notin DOMAIN feed'.source_changes

\* C15 as stated: a stored revised actual departure with a non-zero
\* deviation is still stored after a run that finds no source-station change
\* event for the train.
C15_DepartureSurvives ==
    [][\A j \in 1..Len(rows') :
          \A i \in Conflicts(observations, ToStored(rows'[j])) :
              (/\ observations[i].actual_departure # <<>>
               /\ observations[i].schedule_deviation_minutes # 0
               /\ C15_SourceSilent)
              => /\ observations'[i].actual_departure = observations[i].actual_departure
                 /\ observations'[i].delay_minutes = observations[i].delay_minutes
                 /\ observations'[i].schedule_deviation_minutes
                        = observations[i].schedule_deviation_minutes]_vars

\* C15 as amended: after such a run the stored actual_departure is NULL and
\* delay_minutes and schedule_deviation_minutes are 0.
C15_DepartureOverwritten ==
    [][\A j \in 1..Len(rows') :
          \A i \in Conflicts(observations, ToStored(rows'[j])) :
              (/\ observations[i].actual_departure # <<>>
               /\ observations[i].schedule_deviation_minutes # 0
               /\ C15_SourceSilent)
              => /\ observations'[i].actual_departure = <<>>
                 /\ observations'[i].delay_minutes = 0
                 /\ observations'[i].schedule_deviation_minutes = 0]_vars

\* The last run found no source-station change event and the stored row
\* has no actual departure, while its arrival data (+8) is from an earlier
\* run.
C15_Witness ==
    /\ feed # <<>>
    /\ "t1" \notin DOMAIN feed.source_changes
    /\ Len(observations) = 1
    /\ Len(rows) = 1
    /\ ~rows[1].arrival_observed
    /\ observations[1].actual_departure = <<>>
    /\ observations[1].schedule_deviation_minutes = 0
    /\ observations[1].arrival_delay_minutes = 8

\* C16: a merge into an existing row sets the observation timestamp, train
\* name, line, stations, planned departure, planned arrival, delay_minutes,
\* schedule_deviation_minutes, departure_reason, canceled_departure and
\* canceled to the incoming row's values, whatever the two rows'
\* arrival_observed.
C16_AlwaysOverwritten ==
    [][\A j \in 1..Len(rows') :
          \A i \in Conflicts(observations, ToStored(rows'[j])) :
              LET new == observations'[i]
                  inc == ToStored(rows'[j])
              IN /\ new.observation_ts = inc.observation_ts
                 /\ new.train_name = inc.train_name
                 /\ new.line = inc.line
                 /\ new.source_station = inc.source_station
                 /\ new.target_station = inc.target_station
                 /\ new.planned_departure = inc.planned_departure
                 /\ new.planned_arrival = inc.planned_arrival
                 /\ new.delay_minutes = inc.delay_minutes
                 /\ new.schedule_deviation_minutes = inc.schedule_deviation_minutes
                 /\ new.departure_reason = inc.departure_reason
                 /\ new.canceled_departure = inc.canceled_departure
                 /\ new.canceled = inc.canceled]_vars

\* An observed stored row (arrival +8) took the planned arrival NULL, the
\* departure delay 0 and the timestamp of a later row that is not observed.
C16_Witness ==
    /\ Len(observations) = 1
    /\ Len(rows) = 1
    /\ ~rows[1].arrival_observed
    /\ rows[1].planned_arrival = NoTime
    /\ observations[1].arrival_observed = 1
    /\ observations[1].arrival_delay_minutes = 8
    /\ observations[1].planned_arrival = <<>>
    /\ observations[1].observation_ts = IsoFormat(rows[1].observation_ts)
    /\ observations[1].train_name = "RE1"

\* C17: after a merge the stored arrival_info_missing is 1 exactly when
\* neither the stored nor the incoming row is observed and at least one of
\* them is missing.
C17_MissingMerge ==
    [][\A j \in 1..Len(rows') :
          \A i \in Conflicts(observations, ToStored(rows'[j])) :
              LET old == observations[i]
                  new == observations'[i]
                  inc == ToStored(rows'[j])
              IN /\ new.arrival_info_missing \in {0, 1}
                 /\ new.arrival_info_missing = 1 <=>
                        /\ old.arrival_observed # 1
                        /\ inc.arrival_observed # 1
                        /\ (old.arrival_info_missing = 1 \/ inc.arrival_info_missing = 1)]_vars

\* A stored Missing row is still Missing after the merge of a row that is
\* Open (its run found no arrival candidate).
C17_Witness ==
    /\ Len(observations) = 1
    /\ Len(rows) = 1
    /\ ~rows[1].arrival_observed
    /\ ~rows[1].arrival_info_missing
    /\ observations[1].arrival_info_missing = 1
    /\ observations[1].arrival_observed = 0

\* C18: after a merge the stored arrival_reason is the incoming one if the
\* incoming row is observed; else the stored one if that is neither NULL nor
\* empty; else the incoming one.
C18_ReasonMerge ==
    [][\A j \in 1..Len(rows') :
          \A i \in Conflicts(observations, ToStored(rows'[j])) :
              LET old == observations[i]
                  new == observations'[i]
                  inc == ToStored(rows'[j])
              IN new.arrival_reason =
                     IF inc.arrival_observed = 1 THEN inc.arrival_reason
                     ELSE IF old.arrival_reason \notin {"", SqlNull} THEN old.arrival_reason
                     ELSE inc.arrival_reason]_vars

\* A stored arrival reason outlived the merge of a row that is not observed
\* and carries no reason.
C18_Witness ==
    /\ Len(observations) = 1
    /\ Len(rows) = 1
    /\ ~rows[1].arrival_observed
    /\ rows[1].arrival_reason = ""
    /\ observations[1].arrival_reason = "Stoerung"

----------------------------------------------------------------------------
(* Properties of the batch transaction *)

\* C22 as stated: in every stored row canceled is 1 exactly when
\* canceled_departure or canceled_arrival is 1.
C22_StoredCanceledIsEither ==
    \A i \in 1..Len(observations) :
        observations[i].canceled = 1 <=>
            (observations[i].canceled_departure = 1 \/ observations[i].canceled_arrival = 1)

\* NULL or the empty text (COALESCE(arrival_reason, '') = '').
EmptyText(text) == text \in {"", SqlNull}

\* C26: in every stored row actual_arrival is present exactly when
\* arrival_observed is 1, and a row with arrival_observed = 0 has
\* arrival_delay_minutes = 0, arrival_schedule_deviation_minutes = 0,
\* canceled_arrival = 0 and an empty arrival_reason.
C26_ArrivalFieldsFollowObserved ==
    \A i \in 1..Len(observations) :
        LET r == observations[i]
        IN /\ (r.actual_arrival # <<>>) <=> (r.arrival_observed = 1)
           /\ r.arrival_observed = 0 =>
                  /\ r.arrival_delay_minutes = 0
                  /\ r.arrival_schedule_deviation_minutes = 0
                  /\ r.canceled_arrival = 0
                  /\ EmptyText(r.arrival_reason)

\* An observed stored row (arrival +8, reason kept) took a later row that is
\* not observed and still has its actual arrival and its arrival fields.
C26_Witness ==
    /\ Len(observations) = 1
    /\ Len(rows) = 1
    /\ ~rows[1].arrival_observed
    /\ rows[1].actual_arrival = NoTime
    /\ observations[1].observation_ts = IsoFormat(rows[1].observation_ts)
    /\ observations[1].arrival_observed = 1
    /\ observations[1].actual_arrival # <<>>
    /\ observations[1].arrival_delay_minutes = 8

\* C27 as stated: every stored row with arrival_observed = 1 has a planned
\* arrival, and arrival_schedule_deviation_minutes = actual_arrival -
\* planned_arrival in minutes.
C27_StoredDeviationConsistent ==
    \A i \in 1..Len(observations) :
        LET r == observations[i]
        IN r.arrival_observed = 1 =>
              /\ r.planned_arrival # <<>>
              /\ r.arrival_schedule_deviation_minutes =
                     FromIso(r.actual_arrival) - FromIso(r.planned_arrival)

\* C27 amended: every built Observation with arrival_observed = true has a
\* planned arrival and arrival_schedule_deviation_minutes = actual_arrival -
\* planned_arrival, and so has the stored row right after the insert or the
\* merge of such a row; a merge of a row that is not observed sets
\* planned_arrival to the incoming value (NULL included) and keeps
\* actual_arrival and the deviation.
C27_DeviationConsistentWhenMerged ==
    [][\A j \in 1..Len(rows') :
          LET inc == ToStored(rows'[j])
          IN /\ rows'[j].arrival_observed =>
                    /\ rows'[j].planned_arrival # NoTime
                    /\ rows'[j].arrival_schedule_deviation_minutes =
                           rows'[j].actual_arrival - rows'[j].planned_arrival
                    /\ \A i \in RowsWithKey(observations', ConflictKey(inc)) :
                           LET new == observations'[i]
                           IN /\ new.planned_arrival # <<>>
                              /\ new.arrival_schedule_deviation_minutes =
                                     FromIso(new.actual_arrival) - FromIso(new.planned_arrival)
             /\ ~rows'[j].arrival_observed =>
                    \A i \in Conflicts(observations, inc) :
                        /\ observations'[i].planned_arrival = inc.planned_arrival
                        /\ observations'[i].actual_arrival = observations[i].actual_arrival
                        /\ observations'[i].arrival_schedule_deviation_minutes =
                               observations[i].arrival_schedule_deviation_minutes]_vars

\* A stored row without planned arrival took an observed row (arrival +8):
\* it has the planned arrival and the deviation 8 of that row.
C27_Witness ==
    /\ Len(observations) = 1
    /\ Len(rows) = 1
    /\ rows[1].arrival_observed
    /\ rows[1].arrival_schedule_deviation_minutes = 8
    /\ observations[1].observation_ts = IsoFormat(rows[1].observation_ts)
    /\ observations[1].planned_arrival = IsoFormat(rows[1].planned_arrival)
    /\ observations[1].arrival_schedule_deviation_minutes = 8
    /\ now = 7 * 60 + 25

\* C29: merging the rows of a run a second time leaves the table as the
\* first merge left it, for a key that was stored before and for a new key.
C29_MergeIdempotent ==
    [][UpsertMany(observations', rows') = observations']_vars

\* A stored observed row with a departure delay took a row with another
\* departure delay that is not observed.
C29_Witness ==
    /\ Len(observations) = 1
    /\ Len(rows) = 1
    /\ ~rows[1].arrival_observed
    /\ rows[1].delay_minutes = 5
    /\ observations[1].observation_ts = IsoFormat(rows[1].observation_ts)
    /\ observations[1].arrival_observed = 1
    /\ observations[1].delay_minutes = 5
    /\ observations[1].arrival_delay_minutes = 8

\* The stops of a path that are the station, whatever the case.
Lists(path, station) ==
    \E p \in 1..Len(path) : Lower(Strip(path[p])) = Lower(station)

\* The record has an identifier, the planned time of the mode with its time
\* of day inside the window, and its routing path, if it carries one, lists
\* the other endpoint. The routing path of a record is the ppth the parser
\* reads for it (which sub-element's, for a record with two, is C25's matter).
Qualifies(stop, mode, window_end, other) ==
    LET pt == IF mode = "departure" THEN stop.dp_pt ELSE stop.ar_pt
    IN /\ stop.id # ""
       /\ pt # NoTime
       /\ pt % MinutesPerDay >= WindowStart
       /\ pt % MinutesPerDay <= window_end
       /\ ExtractPath(stop) # <<>> => Lists(ExtractPath(stop), other)

\* out holds the qualifying records of the payload, each once, in payload order.
ReturnsQualifying(out, mode, window_end, other) ==
    LET Q == {i \in 1..Len(feed.records) : Qualifies(feed.records[i], mode, window_end, other)}
        nth(k) == CHOOSE i \in Q : Cardinality({h \in Q : h < i}) = k - 1
    IN /\ Len(out) = Cardinality(Q)
       /\ \A k \in 1..Len(out) :
              /\ out[k].train_id = feed.records[nth(k)].id
              /\ out[k].planned_departure = feed.records[nth(k)].dp_pt
              /\ out[k].planned_arrival = feed.records[nth(k)].ar_pt

\* C24: the stops the plan parser returns are the records of the payload
\* that have a train identifier, the planned time of the requested mode with
\* its time of day inside [window_start, window_end] inclusive and, if the
\* record carries a routing path, the other endpoint station among its stops
\* (whatever the case), in payload order.
C24_ParserFilter ==
    /\ log = <<"departure">> =>
           ReturnsQualifying(departures, "departure", WindowEnd, "Offenburg")
    /\ log = <<"arrival">> =>
           ReturnsQualifying(arrivals, "arrival", ArrivalEnd, "Freiburg")

\* A departure at the last minute of the window whose path lists the target
\* in another case is returned after dropping a record without identifier.
C24_Witness ==
    /\ log = <<"departure">>
    /\ Len(feed.records) = 2
    /\ feed.records[1].id = ""
    /\ Len(departures) = 1
    /\ departures[1].train_id = "t2"
    /\ departures[1].planned_departure = WindowEnd

\* C25 as stated: a target-station record with a train identifier, a planned
\* arrival inside the window and an arrival path that lists the source
\* station is returned by parse_arrivals_plan, whatever its departure
\* sub-element carries.
C25_ArrivalPathDecides ==
    log = <<"arrival">> =>
        \A i \in 1..Len(feed.records) :
            LET stop == feed.records[i]
            IN (/\ stop.id # ""
                /\ stop.ar_pt # NoTime
                /\ stop.ar_pt % MinutesPerDay >= WindowStart
                /\ stop.ar_pt % MinutesPerDay <= ArrivalEnd
                /\ Lists(stop.ar_ppth, "Freiburg"))
               => \E k \in 1..Len(arrivals) :
                      /\ arrivals[k].train_id = stop.id
                      /\ arrivals[k].planned_arrival = stop.ar_pt

\* What the builder computes for a departure matched to an arrival planned at
\* planned_arrival (to none for NoTime) with no change event, at instant t.
BuilderObserved(planned_arrival, t) ==
    ArrivalObserved(<<ArrivalStop("t1", "RE1", planned_arrival)>>,
                    IF planned_arrival = NoTime THEN 0 ELSE 1, <<>>, planned_arrival, t)

BuilderMissing(planned_arrival, t) ==
    ArrivalInfoMissing(planned_arrival, BuilderObserved(planned_arrival, t), t)

BuilderOpen(planned_arrival, t) ==
    ~BuilderObserved(planned_arrival, t) /\ ~BuilderMissing(planned_arrival, t)

\* C23 as stated: in every loaded frame, a row with arrival_observed = false
\* has effective_arrival_missing equal to the arrival_info_missing the
\* builder computes for its planned arrival at the instant of the load, and
\* effective_arrival_open equal to the builder's Open state.
C23_ReclassificationEquivalent ==
    \A p \in 1..Len(view) :
        ~view[p].arrival_observed =>
            /\ view[p].effective_arrival_missing =
                   BuilderMissing(view[p].planned_arrival, view[p].now_local)
            /\ view[p].effective_arrival_open =
                   BuilderOpen(view[p].planned_arrival, view[p].now_local)

\* The labels a load at the current instant gives stored row r.
LabelMissing(r) == EffectiveArrivalMissing(FrameRow(r), now)
LabelOpen(r) == EffectiveArrivalOpen(FrameRow(r), now)

\* Every stored row of the first day is in the end observed or labelled
\* effectively missing by every load.
EventuallyMissing ==
    <>[](\A i \in 1..Len(observations) :
            (observations[i].service_date = 0 /\ observations[i].arrival_observed = 0)
                => LabelMissing(observations[i]))

\* C30 as stated: a row that never becomes observed is in the end labelled
\* effectively missing by every load, and a row labelled effectively missing
\* is not labelled open by a later load unless a merge set arrival_observed.
C30_NeverOpenAgain ==
    /\ EventuallyMissing
    /\ [][\A i \in 1..Len(observations) :
              \A j \in RowsWithKey(observations', ConflictKey(observations[i])) :
                  (/\ observations[i].arrival_observed = 0
                   /\ LabelMissing(observations[i])
                   /\ observations'[j].arrival_observed = 0)
                  => ~EffectiveArrivalOpen(FrameRow(observations'[j]), now')]_vars

\* C30 amended: a row that never becomes observed is labelled effectively
\* missing by every load from the first instant after its service date; a row
\* labelled so because its stored arrival_info_missing is 1 or its service
\* date is past is not labelled open by a later load unless a merge set
\* arrival_observed. (A label inferred from planned arrival + 1 hour alone
\* is lost when a merge replaces the planned arrival.)
C30_MissingInTheEnd ==
    /\ EventuallyMissing
    /\ [](\A i \in 1..Len(observations) :
             (/\ observations[i].arrival_observed = 0
              /\ observations[i].service_date < ServiceDate(now))
             => LabelMissing(observations[i]))
    /\ [][\A i \in 1..Len(observations) :
              \A j \in RowsWithKey(observations', ConflictKey(observations[i])) :
                  (/\ observations[i].arrival_observed = 0
                   /\ \/ observations[i].arrival_info_missing = 1
                      \/ observations[i].service_date < ServiceDate(now)
                   /\ observations'[j].arrival_observed = 0)
                  => ~EffectiveArrivalOpen(FrameRow(observations'[j]), now')]_vars

\* On the next day the first day's row, never observed and stored without
\* planned arrival and with arrival_info_missing = 0, is labelled missing.
C30_Witness ==
    /\ now = MinutesPerDay + 10
    /\ Len(observations) = 1
    /\ observations[1].service_date = 0
    /\ observations[1].arrival_observed = 0
    /\ observations[1].arrival_info_missing = 0
    /\ observations[1].planned_arrival = <<>>
    /\ LabelMissing(observations[1])
    /\ Len(view) = 1
    /\ view[1].now_local = now
    /\ view[1].effective_arrival_missing

\* C14: while a batch is being merged the file holds the table as it was
\* before the batch, and so does every dashboard read made meanwhile; when
\* the batch ends without error the file holds the merge of all its rows;
\* when a statement fails the file holds the table as it was before.
C14_BatchAtomic ==
    [][/\ con' # Closed =>
            /\ observations' = con'.journal
            /\ view' # view => view' = con'.journal
       /\ (con # Closed /\ con' = Closed /\ error' = "") =>
            observations' = UpsertMany(con.journal, rows)
       /\ (con # Closed /\ con' = Closed /\ error' # "") =>
            observations' = con.journal]_vars

\* One of the two statements of a batch has run and changed a stored row;
\* the dashboard's read holds the table as it was before the batch.
C14_Witness ==
    /\ con # Closed
    /\ Len(rows) = 2
    /\ Len(con.todo) = 1
    /\ con.journal # <<>>
    /\ con.table # con.journal
    /\ view = con.journal
    /\ observations = con.journal

----------------------------------------------------------------------------
(* Properties of the fetches *)

\* What the plan requests of fetch f returned, departure hours first.
PlanGots(f) ==
    [h \in 1..Len(f.departure_hours) |-> GetPlan(f.departure_hours[h])]
        \o [h \in 1..Len(f.arrival_hours) |-> GetPlan(f.arrival_hours[h])]

DepartureGots(f) == [h \in 1..Len(f.departure_hours) |-> GetPlan(f.departure_hours[h])]

ArrivalGots(f) == [h \in 1..Len(f.arrival_hours) |-> GetPlan(f.arrival_hours[h])]

\* The request returned the empty-timetable sentinel.
IsSentinel(got) == got.raised = "" /\ got.text = EmptyTimetable

\* The request returned a text that is not well formed.
IsMalformed(got) == got.raised = "" /\ ~got.text.well_formed

\* C19 as stated: when the plan payload of one hour is malformed, the
\* candidates of the other departure hours still have their Observation in
\* the batch and their row, written by this run, in the table.
C19_OtherHoursStored ==
    feed # <<>> =>
        \A h \in 1..Len(feed.departure_hours) :
            (/\ ~IsMalformed(DepartureGots(feed)[h])
             /\ \E g \in 1..Len(PlanGots(feed)) : IsMalformed(PlanGots(feed)[g]))
            => \A k \in 1..Len(DepartureGots(feed)[h].text.records) :
                   \E j \in 1..Len(rows), i \in 1..Len(observations) :
                       /\ rows[j].train_id = DepartureGots(feed)[h].text.records[k].train_id
                       /\ observations[i].train_id = rows[j].train_id
                       /\ observations[i].observation_ts = IsoFormat(rows[j].observation_ts)

\* C20: in every run, an exception comes from a request that raised or from
\* a malformed text, never from the sentinel; every Observation is of a
\* train listed by a departure hour that did not return the sentinel, and
\* has no planned arrival when every arrival hour returned it; when the
\* source station's change fetch returned it no Observation has departure
\* change data; and when every plan fetch returned it the batch is empty and
\* the table as before.
C20_SentinelContributesNothing ==
    [][now' = now =>
          LET sc == GetChanges(feed'.source_changes)
              tc == GetChanges(feed'.target_changes)
              ds == DepartureGots(feed')
              as == ArrivalGots(feed')
              all == <<sc, tc>> \o PlanGots(feed')
          IN /\ error' # "" =>
                    \E g \in 1..Len(all) : all[g].raised # "" \/ IsMalformed(all[g])
             /\ (\A g \in 1..Len(all) : all[g].raised = "" /\ ~IsMalformed(all[g])) =>
                    error' = ""
             /\ \A j \in 1..Len(rows') :
                    /\ \E h \in 1..Len(ds) :
                           /\ ~IsSentinel(ds[h])
                           /\ \E k \in 1..Len(ds[h].text.records) :
                                  ds[h].text.records[k].train_id = rows'[j].train_id
                    /\ (\A h \in 1..Len(as) : IsSentinel(as[h])) =>
                           rows'[j].planned_arrival = NoTime
                    /\ IsSentinel(sc) =>
                           /\ rows'[j].actual_departure = NoTime
                           /\ rows'[j].schedule_deviation_minutes = 0
                           /\ rows'[j].departure_reason = ""
                           /\ ~rows'[j].canceled_departure
             /\ (\A g \in 1..Len(PlanGots(feed')) : IsSentinel(PlanGots(feed')[g])) =>
                    /\ error' = ""
                    /\ rows' = <<>>
                    /\ observations' = observations]_vars

\* Every plan request of the last run returned the sentinel (a 404, a
\* failed request, a 503): the run ended without exception and without
\* Observation, and the table still holds the rows of earlier runs.
C20_Witness ==
    /\ feed # <<>>
    /\ \A g \in 1..Len(PlanGots(feed)) : IsSentinel(PlanGots(feed)[g])
    /\ feed.departure_hours[1].status_code = 404
    /\ feed.departure_hours[2].failed
    /\ feed.arrival_hours[1].status_code = 503
    /\ error = ""
    /\ rows = <<>>
    /\ Len(observations) = 2

----------------------------------------------------------------------------
(* Properties of the end-to-end scenario *)

NoChanges == <<>>

\* Run 1: 07:10, RE1 planned 06:45 -> 07:20, no change events.
Run1 ==
    LogEntry(7 * 60 + 10, MakeFeed(<<D1(0)>>, <<A1(0)>>, NoChanges, NoChanges))

\* Run 2: 07:25, the target station reports the arrival revised to 07:28.
Run2 ==
    LogEntry(7 * 60 + 25,
             MakeFeed(<<D1(0)>>, <<A1(0)>>, NoChanges,
                      "t1" :> ChangeInfo("t1", NoTime, 7 * 60 + 28, "", "", FALSE)))

\* Run 3: 09:00, no change events.
Run3 ==
    LogEntry(9 * 60, MakeFeed(<<D1(0)>>, <<A1(0)>>, NoChanges, NoChanges))

\* C5: after run 1 the stored row is Open; after runs 1 and 2 it is observed
\* with an arrival delay of 8 minutes; after runs 1, 2 and 3 it still holds
\* the actual arrival 07:28, the delay 8, arrival_observed = 1 and
\* arrival_info_missing = 0.
C5_EndToEnd ==
    /\ log = <<Run1>> =>
          /\ Len(observations) = 1
          /\ observations[1].arrival_observed = 0
          /\ observations[1].arrival_info_missing = 0
    /\ log = <<Run1, Run2>> =>
          /\ Len(observations) = 1
          /\ observations[1].arrival_observed = 1
          /\ observations[1].arrival_delay_minutes = 8
    /\ log = <<Run1, Run2, Run3>> =>
          /\ Len(observations) = 1
          /\ observations[1].actual_arrival = IsoFormat(7 * 60 + 28)
          /\ observations[1].arrival_delay_minutes = 8
          /\ observations[1].arrival_observed = 1
          /\ observations[1].arrival_info_missing = 0

\* The three runs were made, and the third built a row that is not observed.
C5_Witness ==
    /\ log = <<Run1, Run2, Run3>>
    /\ Len(rows) = 1
    /\ ~rows[1].arrival_observed
    /\ observations[1].train_id = "t1"

----------------------------------------------------------------------------
(* Properties of the Observation builder *)

\* The arrival candidate row r was matched to: the timetable's arrivals
\* differ in their planned arrival.
ArrivalOf(r) ==
    CHOOSE i \in 1..Len(feed.arrivals) : feed.arrivals[i].planned_arrival = r.planned_arrival

HasArrival(r) == r.planned_arrival # NoTime

ChangeEntryFor(r) == feed.arrivals[ArrivalOf(r)].train_id \in DOMAIN feed.target_changes

ChangeFor(r) == feed.target_changes[feed.arrivals[ArrivalOf(r)].train_id]

ExplicitSignal(r) ==
    ChangeEntryFor(r) /\ (ChangeFor(r).changed_arrival # NoTime \/ ChangeFor(r).canceled)

\* C6 as stated: built at T + 59 minutes with a matched arrival and no change
\* event for it, the Observation is Open.
C6_OpenAt59 ==
    log # <<>> =>
        \A j \in 1..Len(rows) :
            (/\ HasArrival(rows[j])
             /\ ~ChangeEntryFor(rows[j])
             /\ now = rows[j].planned_arrival + 59)
            => ~rows[j].arrival_observed /\ ~rows[j].arrival_info_missing

\* C6 as amended: built at T + 59 minutes with a matched arrival and no
\* change event for it, the Observation is Observed, on time.
C6_ObservedAt59 ==
    log # <<>> =>
        \A j \in 1..Len(rows) :
            (/\ HasArrival(rows[j])
             /\ ~ChangeEntryFor(rows[j])
             /\ now = rows[j].planned_arrival + 59)
            => /\ rows[j].arrival_observed
               /\ ~rows[j].arrival_info_missing
               /\ rows[j].actual_arrival = rows[j].planned_arrival

C6_Witness ==
    /\ log # <<>>
    /\ \E j \in 1..Len(rows) :
          /\ HasArrival(rows[j])
          /\ ~ChangeEntryFor(rows[j])
          /\ now = rows[j].planned_arrival + 59
          /\ rows[j].arrival_observed
          /\ rows[j].arrival_schedule_deviation_minutes = 0

\* C7: with a matched arrival planned at T and no explicit arrival signal,
\* the Observation is Open when now < T, Observed when T <= now <= T + 60,
\* and Missing when now > T + 60.
C7_ClassifiedByNow ==
    log # <<>> =>
        \A j \in 1..Len(rows) :
            (HasArrival(rows[j]) /\ ~ExplicitSignal(rows[j])) =>
                LET T == rows[j].planned_arrival
                    open == ~rows[j].arrival_observed /\ ~rows[j].arrival_info_missing
                    observed == rows[j].arrival_observed /\ ~rows[j].arrival_info_missing
                    missing == ~rows[j].arrival_observed /\ rows[j].arrival_info_missing
                IN /\ now < T => open
                   /\ (T <= now /\ now <= T + 60) => observed
                   /\ now > T + 60 => missing

\* At the deadline itself, with a change entry that carries no signal, the
\* Observation is Observed.
C7_Witness ==
    /\ log # <<>>
    /\ \E j \in 1..Len(rows) :
          /\ HasArrival(rows[j])
          /\ ChangeEntryFor(rows[j])
          /\ ~ExplicitSignal(rows[j])
          /\ now = rows[j].planned_arrival + 60
          /\ rows[j].arrival_observed

\* C8: with a change entry for the matched arrival that carries a revised
\* arrival time or the cancellation flag, the Observation is Observed and not
\* missing at every instant, and its actual arrival is the revised time if
\* there is one, else the planned arrival.
C8_ExplicitSignalObserved ==
    log # <<>> =>
        \A j \in 1..Len(rows) :
            (HasArrival(rows[j]) /\ ExplicitSignal(rows[j])) =>
                /\ rows[j].arrival_observed
                /\ ~rows[j].arrival_info_missing
                /\ rows[j].actual_arrival =
                       IF ChangeFor(rows[j]).changed_arrival # NoTime
                       THEN ChangeFor(rows[j]).changed_arrival
                       ELSE rows[j].planned_arrival

\* After the deadline, a cancellation without a revised time is Observed at
\* the planned arrival.
C8_Witness ==
    /\ log # <<>>
    /\ \E j \in 1..Len(rows) :
          /\ HasArrival(rows[j])
          /\ ExplicitSignal(rows[j])
          /\ ChangeFor(rows[j]).changed_arrival = NoTime
          /\ now > rows[j].planned_arrival + 60
          /\ rows[j].arrival_observed
          /\ rows[j].actual_arrival = rows[j].planned_arrival

\* The Observations of the run in processing order, before the deduplicator.
Built ==
    BuildLoop(SortDepartures(feed.departures), 1, SortArrivals(feed.arrivals), {},
              feed.source_changes, feed.target_changes, now, <<>>)

\* The position of the Observation built last for the pair of Built[i].
LastBuiltFor(i) ==
    CHOOSE j \in 1..Len(Built) :
        /\ DedupKey(Built[j]) = DedupKey(Built[i])
        /\ \A h \in (j + 1)..Len(Built) : DedupKey(Built[h]) # DedupKey(Built[i])

\* C11: the list collect_observations returns holds no two Observations with
\* the same (route_label, train_id), holds one for every pair an Observation
\* was built for and for no other pair, and the one it holds for a pair is
\* the one built last for it.
C11_OnePerPairLastBuilt ==
    log # <<>> =>
        /\ \A i, j \in 1..Len(rows) : i # j => DedupKey(rows[i]) # DedupKey(rows[j])
        /\ {DedupKey(rows[j]) : j \in 1..Len(rows)}
               = {DedupKey(Built[i]) : i \in 1..Len(Built)}
        /\ \A i \in 1..Len(Built) :
               \E j \in 1..Len(rows) : rows[j] = Built[LastBuiltFor(i)]

\* Three Observations were built, two of them for the same pair with
\* different planned arrivals, and the later one was returned.
C11_Witness ==
    /\ log # <<>>
    /\ Len(Built) = 3
    /\ Len(rows) = 2
    /\ \E i \in 1..3 :
           /\ LastBuiltFor(i) # i
           /\ Built[i].planned_arrival # Built[LastBuiltFor(i)].planned_arrival
           /\ \E j \in 1..2 : rows[j] = Built[LastBuiltFor(i)]

\* The departures of the run in processing order.
SortedDepartures == SortDepartures(feed.departures)

\* The matcher finds no arrival for the k-th departure: no candidate has its
\* identifier or its name, or (the candidates have different identifiers and
\* every earlier departure was handed one) none is left.
NoArrivalFor(k) ==
    \/ \A i \in 1..Len(feed.arrivals) :
           /\ feed.arrivals[i].train_id # SortedDepartures[k].train_id
           /\ feed.arrivals[i].train_name # SortedDepartures[k].train_name
    \/ /\ k > Len(feed.arrivals)
       /\ \A i \in 1..Len(feed.arrivals) :
              feed.arrivals[i].train_name = SortedDepartures[k].train_name

\* The k-th departure's Observation is the last one built for its pair.
LastOfPair(k) ==
    \A h \in (k + 1)..Len(SortedDepartures) :
        SortedDepartures[h].train_id # SortedDepartures[k].train_id

\* C13: a departure the matcher finds no arrival for still has its
\* Observation, with arrival_observed = false, no actual and no planned
\* arrival, arrival deviation and delay 0 and canceled_arrival = false, at
\* every instant and with every target-station change lookup.
C13_UnmatchedDeparture ==
    log # <<>> =>
        \A k \in 1..Len(SortedDepartures) :
            (NoArrivalFor(k) /\ LastOfPair(k)) =>
                \E j \in 1..Len(rows) :
                    /\ rows[j].train_id = SortedDepartures[k].train_id
                    /\ rows[j].planned_departure = SortedDepartures[k].planned_departure
                    /\ ~rows[j].arrival_observed
                    /\ rows[j].actual_arrival = NoTime
                    /\ rows[j].planned_arrival = NoTime
                    /\ rows[j].arrival_schedule_deviation_minutes = 0
                    /\ rows[j].arrival_delay_minutes = 0
                    /\ ~rows[j].canceled_arrival

\* The second departure found every candidate used; the target station
\* reports a revised arrival for its identifier, and its Observation has no
\* arrival.
C13_Witness ==
    /\ log # <<>>
    /\ Len(feed.arrivals) = 1
    /\ Len(SortedDepartures) = 2
    /\ NoArrivalFor(2)
    /\ SortedDepartures[2].train_id \in DOMAIN feed.target_changes
    /\ feed.target_changes[SortedDepartures[2].train_id].changed_arrival # NoTime
    /\ \E j \in 1..Len(rows) :
           /\ rows[j].train_id = SortedDepartures[2].train_id
           /\ rows[j].planned_arrival = NoTime
           /\ ~rows[j].arrival_observed

\* C21: a source-station change event with the cancellation flag and an
\* empty departure reason gives departure_reason = "Ausfall"; with the
\* arrival Observed, a target-station change event with the cancellation flag
\* and an empty arrival reason gives arrival_reason = "Ausfall"; a non-empty
\* reason of the feed is the Observation's reason, canceled or not.
C21_AusfallDefault ==
    log # <<>> =>
        \A j \in 1..Len(rows) :
            /\ rows[j].train_id \in DOMAIN feed.source_changes =>
                   LET c == feed.source_changes[rows[j].train_id]
                   IN /\ (c.canceled /\ c.departure_reason = "") =>
                             rows[j].departure_reason = "Ausfall"
                      /\ c.departure_reason # "" =>
                             rows[j].departure_reason = c.departure_reason
            /\ (HasArrival(rows[j]) /\ ChangeEntryFor(rows[j]) /\ rows[j].arrival_observed) =>
                   LET c == ChangeFor(rows[j])
                   IN /\ (c.canceled /\ c.arrival_reason = "") =>
                             rows[j].arrival_reason = "Ausfall"
                      /\ c.arrival_reason # "" =>
                             rows[j].arrival_reason = c.arrival_reason

\* One Observation has a departure canceled without reason text ("Ausfall")
\* and an arrival canceled with the feed's reason text, which it kept.
C21_Witness ==
    /\ log # <<>>
    /\ \E j \in 1..Len(rows) :
           /\ rows[j].canceled_departure
           /\ rows[j].departure_reason = "Ausfall"
           /\ feed.source_changes[rows[j].train_id].departure_reason = ""
           /\ rows[j].arrival_observed
           /\ rows[j].canceled_arrival
           /\ rows[j].arrival_reason = "Stoerung"

\* C28 as stated: a departure whose train identifier is also an arrival
\* candidate's has, in the returned Observation of its pair, that
\* candidate's planned arrival.
C28_OwnArrivalKept ==
    log # <<>> =>
        \A k \in 1..Len(feed.departures), i \in 1..Len(feed.arrivals) :
            feed.arrivals[i].train_id = feed.departures[k].train_id =>
                \E j \in 1..Len(rows) :
                    /\ rows[j].train_id = feed.departures[k].train_id
                    /\ rows[j].planned_arrival = feed.arrivals[i].planned_arrival

----------------------------------------------------------------------------
(* Properties of the arrival matcher *)

\* C9: the arrivals returned for the departures processed so far are
\* pairwise different candidates with pairwise different train identifiers,
\* and each identifier is in the used set.
C9_NoArrivalMatchedTwice ==
    /\ \A i, j \in 1..Len(matched) :
          (i # j /\ matched[i] # 0 /\ matched[j] # 0) =>
              /\ matched[i] # matched[j]
              /\ arrivals[matched[i]].train_id # arrivals[matched[j]].train_id
    /\ \A i \in 1..Len(matched) :
          matched[i] # 0 => arrivals[matched[i]].train_id \in used_arrival_ids

\* The second departure's own arrival was taken by the first (by name), and
\* it was matched to another one.
C9_Witness ==
    /\ Len(matched) = 2
    /\ matched[1] # 0
    /\ matched[2] # 0
    /\ arrivals[matched[1]].train_id = departures[2].train_id

\* What C10 says the matcher returns for departure dep (r = 0: no match).
Chosen(dep, r, used) ==
    LET same_id == {i \in 1..Len(arrivals) :
                       arrivals[i].train_id = dep.train_id /\ arrivals[i].train_id \notin used}
        same_name == {i \in 1..Len(arrivals) :
                         arrivals[i].train_name = dep.train_name
                             /\ arrivals[i].train_id \notin used}
        diff(i) == arrivals[i].planned_arrival - dep.planned_departure
        plausible == {i \in same_name : 0 <= diff(i) /\ diff(i) <= 300}
    IN IF same_id # {} THEN r \in same_id
       ELSE IF same_name = {} THEN r = 0
       ELSE IF plausible # {}
            THEN r \in plausible /\ \A i \in plausible : diff(r) <= diff(i)
            ELSE r \in same_name /\ \A i \in same_name : Abs(diff(r)) <= Abs(diff(i))

\* C10: each call returns the unused candidate with the departure's
\* identifier if there is one; else the unused same-name candidate with the
\* smallest planned arrival minus planned departure in [0, 300]; else the
\* unused same-name candidate with the smallest absolute difference; and no
\* match without an unused same-name candidate.
C10_MatcherChoice ==
    [][Len(matched') = Len(matched) + 1 =>
          Chosen(departures[Len(matched')], matched'[Len(matched')], used_arrival_ids)]_vars

\* With only a -5 minute and a +350 minute candidate of the same name, the
\* -5 minute one was returned.
C10_Witness ==
    /\ Len(matched) = 1
    /\ Len(arrivals) = 2
    /\ \A i \in 1..2 :
          /\ arrivals[i].train_name = departures[1].train_name
          /\ arrivals[i].train_id # departures[1].train_id
    /\ arrivals[1].planned_arrival = departures[1].planned_departure - 5
    /\ arrivals[2].planned_arrival = departures[1].planned_departure + 350
    /\ matched[1] = 1

====
